---- MODULE Spec2Model ----
(***************************************************************************)
(* Message ingestion and sequencing engine of the iMessage bridge:         *)
(* the change detector (watcher/fs_monitor.py), the store reader           *)
(* (watcher/chat_db.py), the cursor and dedup state (state.py) and the     *)
(* concurrent per-sender sequencer (watcher/processor.py); one agent turn   *)
(* over an NDJSON response stream; the start of the process, save() step   *)
(* by step, the cleanup at shutdown (__main__.py) and the failures of the  *)
(* store read and of the state write.                                      *)
(*                                                                         *)
(* A text is a sequence of one-character strings.  The characters outside  *)
(* ASCII that the texts of the model use are written as the tokens "PIN"   *)
(* (U+1F4CD), "LDQUO" (U+201C) and "RDQUO" (U+201D).                       *)
(***************************************************************************)
EXTENDS Integers, Sequences, FiniteSets, TLC

(* ------------------------------------------------------------------ *)
(* Bounds of the model                                                 *)
(* ------------------------------------------------------------------ *)

\* rows the external writer appends to the store in one behaviour
MaxRows == 3

\* distinct senders (h.id)
NumSenders == 3

\* processor.py:31 sets 20 and state.py:14 sets 500; the model runs the same
\* code with small values so that the cap and the capacity are reached
MAX_CONCURRENT_AGENTS == 1

MAX_PROCESSED_GUIDS == 2

Senders == 1..NumSenders

(* ------------------------------------------------------------------ *)
(* Texts and the regular expressions applied to them                   *)
(* ------------------------------------------------------------------ *)

UpperCase == <<"A", "B", "C", "D", "E", "F", "G", "H", "I", "J", "K", "L", "M", "N", "O", "P", "Q", "R", "S", "T", "U", "V", "W", "X", "Y", "Z">>

LowerCase == <<"a", "b", "c", "d", "e", "f", "g", "h", "i", "j", "k", "l", "m", "n", "o", "p", "q", "r", "s", "t", "u", "v", "w", "x", "y", "z">>

\* str.lower() of one character (re.IGNORECASE compares case-folded)
Lower(c) ==
    IF \E i \in 1..Len(UpperCase) : UpperCase[i] = c
    THEN LowerCase[CHOOSE i \in 1..Len(UpperCase) : UpperCase[i] = c]
    ELSE c

\* \s of the re module, on the characters of the model
IsSpace(c) == c \in {" ", "\t", "\n", "\r"}

IsDigit(c) == c \in {"0", "1", "2", "3", "4", "5", "6", "7", "8", "9"}

\* pat occurs in text at position i, compared case-insensitively
MatchAtCI(text, pat, i) ==
    /\ i >= 1
    /\ i + Len(pat) - 1 <= Len(text)
    /\ \A k \in 1..Len(pat) : Lower(text[i + k - 1]) = Lower(pat[k])

\* pat occurs in text at position i, compared exactly
MatchAt(text, pat, i) ==
    /\ i >= 1
    /\ i + Len(pat) - 1 <= Len(text)
    /\ \A k \in 1..Len(pat) : text[i + k - 1] = pat[k]

\* re.compile(pat, re.IGNORECASE).search(text) for a literal pat
SearchCI(text, pat) == \E i \in 1..Len(text) : MatchAtCI(text, pat, i)

\* re.compile(r"^word\s+\"", re.IGNORECASE).search(text)
ReactionMatch(text, word) ==
    /\ MatchAtCI(text, word, 1)
    /\ \E n \in 1..Len(text) :
          /\ Len(word) + n + 1 <= Len(text)
          /\ \A k \in 1..n : IsSpace(text[Len(word) + k])
          /\ text[Len(word) + n + 1] = "\""

\* re.compile(r"^https?://\S+$").search(text)
UrlMatch(text) ==
    \E p \in {<<"h", "t", "t", "p", ":", "/", "/">>, <<"h", "t", "t", "p", "s", ":", "/", "/">>} :
        /\ MatchAt(text, p, 1)
        /\ Len(text) > Len(p)
        /\ \A k \in (Len(p) + 1)..Len(text) : ~IsSpace(text[k])

WordMissedACall == <<"m", "i", "s", "s", "e", "d", " ", "a", " ", "c", "a", "l", "l">>

WordDidntLeave == <<"d", "i", "d", "n", "'", "t", " ", "l", "e", "a", "v", "e", " ", "a", " ", "m", "e", "s", "s", "a", "g", "e">>

ReactionWords == {
    <<"L", "i", "k", "e", "d">>,
    <<"L", "o", "v", "e", "d">>,
    <<"L", "a", "u", "g", "h", "e", "d", " ", "a", "t">>,
    <<"E", "m", "p", "h", "a", "s", "i", "s", "e", "d">>,
    <<"E", "m", "p", "h", "a", "s", "i", "z", "e", "d">>,
    <<"D", "i", "s", "l", "i", "k", "e", "d">>,
    <<"Q", "u", "e", "s", "t", "i", "o", "n", "e", "d">> }

\* _JUNK_PATTERNS and _is_junk_message
is_junk_message(text) ==
    \/ UrlMatch(text)
    \/ SearchCI(text, WordMissedACall)
    \/ SearchCI(text, WordDidntLeave)
    \/ \E w \in ReactionWords : ReactionMatch(text, w)

\* str.strip() of a text
RECURSIVE LStrip(_)
LStrip(t) == IF t # <<>> /\ IsSpace(Head(t)) THEN LStrip(Tail(t)) ELSE t

RECURSIVE RStrip(_)
RStrip(t) ==
    IF t # <<>> /\ IsSpace(t[Len(t)]) THEN RStrip(SubSeq(t, 1, Len(t) - 1)) ELSE t

Strip(t) == RStrip(LStrip(t))

\* the characters of the all(c in "..." for c in cleaned) test, chat_db.py:189
ArtifactChars == {"+", "ZWJ", "ZWSP", "NBSP", "!", "?", ".", ",", ";", ":", "-", "_", "=", "/"}

CarrierWords == {
    <<"y", "o", "u", "r", " ", "v", "o", "i", "c", "e", "m", "a", "i", "l">>,
    <<"m", "i", "n", "u", "t", "e", "s", " ", "r", "e", "m", "a", "i", "n", "i", "n", "g">>,
    <<"d", "a", "t", "a", " ", "u", "s", "a", "g", "e">>,
    <<"a", "c", "c", "o", "u", "n", "t", " ", "b", "a", "l", "a", "n", "c", "e">>,
    <<"y", "o", "u", "r", " ", "p", "l", "a", "n", " ", "h", "a", "s", " ", "b", "e", "e", "n">>,
    <<"r", "e", "p", "l", "y", " ", "S", "T", "O", "P", " ", "t", "o">>,
    <<"s", "e", "r", "v", "i", "c", "e", " ", "n", "o", "t", "i", "f", "i", "c", "a", "t", "i", "o", "n">>,
    <<"v", "e", "r", "i", "f", "i", "c", "a", "t", "i", "o", "n", " ", "c", "o", "d", "e">> }

\* re.compile(r"^You have \d+ new", re.IGNORECASE).search(text)
YouHaveNewMatch(text) ==
    /\ MatchAtCI(text, <<"Y", "o", "u", " ", "h", "a", "v", "e", " ">>, 1)
    /\ \E n \in 1..Len(text) :
          /\ \A k \in 1..n : 9 + k <= Len(text) /\ IsDigit(text[9 + k])
          /\ MatchAtCI(text, <<" ", "n", "e", "w">>, 9 + n + 1)

\* re.compile(r"^Your .+ code is", re.IGNORECASE).search(text)
YourCodeMatch(text) ==
    /\ MatchAtCI(text, <<"Y", "o", "u", "r", " ">>, 1)
    /\ \E i \in 7..Len(text) :
          /\ MatchAtCI(text, <<" ", "c", "o", "d", "e", " ", "i", "s">>, i)
          /\ \A k \in 6..(i - 1) : text[k] # "\n"

\* _CARRIER_PATTERNS and _is_carrier_notification
is_carrier_notification(text) ==
    \/ \E w \in CarrierWords : SearchCI(text, w)
    \/ YouHaveNewMatch(text)
    \/ YourCodeMatch(text)

\* the texts of the rows the writer appends
TextHi == <<"h", "i">>

TextLiked == <<"L", "i", "k", "e", "d", " ", "\"", "o", "k", "\"">>

TextTapback == <<"PIN", " ", "L", "i", "k", "e", "d", " ", "LDQUO", "o", "k", "RDQUO">>

(* ------------------------------------------------------------------ *)
(* State                                                               *)
(* ------------------------------------------------------------------ *)

VARIABLES
    store,            \* the message table of chat.db: rows in ROWID order
    mtime,            \* _get_db_mtime(messages_dir) as the file system has it
    fs_queued,        \* an on_modified event handed to the loop, _schedule not yet run
    pending_handle,   \* _ChatDBHandler._pending_handle is not None
    change_event,     \* change_event.is_set()
    w_pc,             \* position of the start_watcher loop
    last_mtime,       \* the loop's remembered modification time
    callback_overlap, \* the callback was invoked while an invocation was running
    fetching,         \* MessageProcessor._fetching
    cb_pc,            \* position of on_chat_db_changed
    messages,         \* rows fetched by the running invocation, not yet classified
    to_process,       \* rows retained by the running invocation
    last_rowid,       \* BridgeState.last_rowid
    processed_guids,  \* BridgeState.processed_guids
    insert_order,     \* the identifiers of processed_guids in insertion order
    disk,             \* the state document on durable storage
    units,            \* the per-sender tasks created so far, in creation order
    startQ,           \* created tasks whose first step has not run yet
    lockHolder,       \* _user_locks: the unit holding each sender's lock, 0 if none
    lockWaiters,      \* _user_locks: the units waiting for each sender's lock
    semValue,         \* _agent_semaphore: free permits
    active_tasks,     \* _active_tasks: the units tracked for shutdown
    sent_message_ids, \* BridgeState.sent_message_ids
    mutations,        \* the fields of BridgeState mutated so far, and whether
                      \* the mutation was made inside async with self._state_lock
    chunks,           \* one agent turn: the body of the response, as symbols
    stream_pos,       \* one agent turn: the symbols of the body read so far
    buffer,           \* one agent turn: buffer of _forward_to_agent_streaming
    response_text,    \* one agent turn: response_text
    last_response_id, \* one agent turn: _last_response_ids[msg.sender]
    delivered,        \* one agent turn: the texts handed to send_imessage, in order
    turn_pc,          \* one agent turn: position of _process_active_user
    proc_pc,          \* the process: "down" before _run and after a kill, "up",
                      \* or "crashed" when an exception left _run at start
    current_max,      \* _run: the store's maximum at the last bootstrap (0: none)
    sd_pc,            \* the cleanup of _run: "running", "saving", "closing", "closed"
    watcher_error,    \* the exception the watcher task ended with, "none" if none
    disk_kind,        \* the file of the state document: "absent", "ok" (the
                      \* document disk), or what load finds instead of one
    tmp_file,         \* the .tmp file next to the state document
    save_pc,          \* position of a save() that is run step by step
    proc_turn,        \* per reply identifier: the reply on the processor's path
    listener,         \* per reply identifier: the task of _send_and_track
    confirmed,        \* per reply identifier: send_imessage calls that returned True
    n_chunks,         \* send_imessage: len(chunks), 0 when the stripped text is empty
    chunk_i,          \* send_imessage: the chunk of the for loop, from 1
    attempt,          \* send_imessage: osascript runs made for the current chunk
    send_log,         \* send_imessage: the osascript runs so far and their outcome
    send_pc,          \* send_imessage: "running", or the value returned
    blob,             \* the bytes handed to extract_text_from_attributed_body
    built,            \* how the blob was put together: marker, payload, terminator
    extracted,        \* what extract_text_from_attributed_body returned
    dec_pc,           \* "idle", "ready" before the call, "done" after it
    status_code,      \* the status of the response of v2-chat-service
    raised_by,        \* the exception that left the turn: "none", "timeout", "status", "event"
    account,          \* the status of the sender's imessage_users record, "none": no record
    user_cache,       \* _UserCache: the status of the sender's snapshot, "absent": no entry
    ob_pc,            \* where the routing of one row of that sender stands
    user_info,        \* the user_info handed to _continue_onboarding and where it came from
    fresh_info,       \* the fresh_info of _continue_onboarding and where it came from
    ob_info,          \* the info the onboarding call is built from
    ready_q,          \* the handler's callbacks in the loop's ready queue, oldest first
    timers,           \* every handle call_later gave _schedule, in order of creation
    handle,           \* _pending_handle: a position in timers, 0 for None
    pushes,           \* the on_modified calls for chat.db or chat.db-wal so far
    gap,              \* "close" until debounce_seconds have passed since the last push
    bursts,           \* the runs of pushes less than debounce_seconds apart so far
    ev_flag,          \* start_watcher's change_event is set
    flag_sets,        \* the runs of _fire so far
    dw_pc,            \* start_watcher: "wait" at line 100, "callback" at line 112
    dirty,            \* _get_db_mtime is above last_mtime
    set_in_cb,        \* _fire ran since the callback was invoked and before it returned
    woke_on,          \* what the last invocation followed: "none", "event", "kept", "poll"
    stuck,            \* the unit whose call, delivery or delay never returns, 0: none
    before_stop       \* the positions of the rows handed to units before the last stop

vars == << store, mtime, fs_queued, pending_handle, change_event, w_pc,
           last_mtime, callback_overlap, fetching, cb_pc, messages, to_process,
           last_rowid, processed_guids, insert_order, disk, units, startQ,
           lockHolder, lockWaiters, semValue, active_tasks, sent_message_ids,
           mutations,
           chunks, stream_pos, buffer, response_text, last_response_id, delivered,
           turn_pc, proc_pc, current_max, sd_pc, watcher_error, disk_kind, tmp_file,
           save_pc, proc_turn, listener, confirmed, n_chunks, chunk_i, attempt,
           send_log, send_pc, blob, built, extracted, dec_pc, status_code, raised_by,
           account, user_cache, ob_pc, user_info, fresh_info, ob_info,
           ready_q, timers, handle, pushes, gap, bursts, ev_flag, flag_sets, dw_pc,
           dirty, set_in_cb, woke_on, stuck, before_stop >>

detector_vars == << fs_queued, pending_handle, change_event, w_pc, last_mtime,
                    callback_overlap >>

callback_vars == << fetching, cb_pc, messages, to_process >>

state_vars == << last_rowid, processed_guids, insert_order, disk >>

unit_vars == << units, startQ, lockHolder, lockWaiters, semValue, active_tasks >>

sent_vars == << sent_message_ids, mutations >>

turn_vars == << chunks, stream_pos, buffer, response_text, last_response_id,
               delivered, turn_pc, status_code, raised_by >>

life_vars == << proc_pc, current_max, sd_pc, watcher_error >>

file_vars == << disk_kind, tmp_file, save_pc >>

\* the replies on their two delivery paths
reply_vars == << proc_turn, listener, confirmed >>

send_vars == << n_chunks, chunk_i, attempt, send_log, send_pc >>

delivery_vars == << reply_vars, send_vars >>

\* one call of extract_text_from_attributed_body
decode_vars == << blob, built, extracted, dec_pc >>

\* what the detector, the callback and the units leave alone
\* one row of one sender on its way through _route_message, with the cache
onboard_vars == << account, user_cache, ob_pc, user_info, fresh_info, ob_info >>

\* _ChatDBHandler with its timers and start_watcher around any callback
debounce_vars == << ready_q, timers, handle, pushes, gap, bursts, ev_flag, flag_sets,
                   dw_pc, dirty, set_in_cb, woke_on >>

extra_vars == << onboard_vars, debounce_vars, stuck, before_stop >>

\* the variables of the parts written first
base_vars == << store, mtime, detector_vars, callback_vars, state_vars, unit_vars,
               sent_vars, turn_vars, life_vars, file_vars, delivery_vars,
               decode_vars >>

other_vars == << turn_vars, life_vars, file_vars, delivery_vars, decode_vars,
                extra_vars >>

Max(a, b) == IF a >= b THEN a ELSE b

(* ------------------------------------------------------------------ *)
(* The store and its external writer                                   *)
(* ------------------------------------------------------------------ *)

\* IncomingMessage / a row of the message table (is_from_me = 0)
Row(rowid, g, sender, text) ==
    [rowid |-> rowid, guid |-> g, sender |-> sender, text |-> text]

MaxRowid == IF store = <<>> THEN 0 ELSE store[Len(store)].rowid

\* the senders a new message may come from: a sender of the store or the next
\* one not seen yet (a sender is only ever compared with another for equality,
\* so senders are numbered in the order in which they first write)
NextSenders ==
    {s \in Senders : s <= Cardinality({store[k].sender : k \in 1..Len(store)}) + 1}

\* the rows the writer may append next: a new message (a new identifier), a
\* text or a tapback (a tapback's sender plays no part in what follows); with
\* replay, also a message of the store observed again under a new ROWID
NewRows(replay) ==
    LET g == Len(store) + 1 IN
    {Row(MaxRowid + 1, g, s, TextHi) : s \in NextSenders}
    \cup {Row(MaxRowid + 1, g, 1, TextLiked)}
    \cup (IF replay
          THEN {[store[k] EXCEPT !.rowid = MaxRowid + 1] : k \in 1..Len(store)}
          ELSE {})

\* Messages.app appends one inbound row; notify: the file system event of the
\* write reaches the watchdog handler (on_modified hands _schedule to the loop)
WriterAppend(notify, replay) ==
    /\ Len(store) < MaxRows
    /\ \E row \in NewRows(replay) : store' = Append(store, row)
    /\ mtime' = mtime + 1
    /\ fs_queued' = (fs_queued \/ notify)
    /\ UNCHANGED << pending_handle, change_event, w_pc, last_mtime, callback_overlap >>
    /\ UNCHANGED << callback_vars, state_vars, unit_vars, sent_vars, other_vars >>

(* ------------------------------------------------------------------ *)
(* Store reader                                                        *)
(* ------------------------------------------------------------------ *)

\* the filters of fetch_new_messages on one row's text
FetchKeeps(text) ==
    LET cleaned == Strip(text) IN
    /\ cleaned # <<>>
    /\ Len(cleaned) > 1
    /\ ~(\A k \in 1..Len(cleaned) : cleaned[k] \in ArtifactChars)
    /\ ~is_carrier_notification(cleaned)

\* the rows above the cursor that pass the filters, text stripped, in store order
FetchRows(cursor) ==
    LET kept == SelectSeq(store, LAMBDA r : r.rowid > cursor /\ FetchKeeps(r.text))
    IN  [i \in 1..Len(kept) |-> [kept[i] EXCEPT !.text = Strip(kept[i].text)]]

RECURSIVE Reverse(_)
Reverse(s) == IF s = <<>> THEN <<>> ELSE Append(Reverse(Tail(s)), Head(s))

\* the query with ORDER BY m.ROWID DESC
fetch_new_messages_desc(cursor) == Reverse(FetchRows(cursor))

\* fetch_new_messages(chat_db_path, None, last_rowid): ORDER BY m.ROWID ASC,
\* the order of the store
fetch_new_messages(cursor) == FetchRows(cursor)

(* ------------------------------------------------------------------ *)
(* Cursor and dedup state                                              *)
(* ------------------------------------------------------------------ *)

\* list(self.processed_guids)[-MAX_PROCESSED_GUIDS:]: the last entries of the
\* iteration order of a set, which is any order
Truncations(guids) ==
    IF Cardinality(guids) <= MAX_PROCESSED_GUIDS
    THEN {guids}
    ELSE {S \in SUBSET guids : Cardinality(S) = MAX_PROCESSED_GUIDS}

\* BridgeState.save: the documents one call may write
SaveChoices(rowid, guids) ==
    {[last_rowid |-> rowid, processed_guids |-> S] : S \in Truncations(guids)}

\* the document of a state that holds nothing: BridgeState()
EmptyDoc == [last_rowid |-> 0, processed_guids |-> {}]
(* ------------------------------------------------------------------ *)
(* Sequencer: on_chat_db_changed                                       *)
(* ------------------------------------------------------------------ *)

StateLocked_not == FALSE

\* the mutations of on_chat_db_changed are made inside async with
\* self._state_lock (lines 172, 178, 184)
StateLocked == TRUE

\* the log of mutations after the fields fs were mutated, with or without the lock
Mutated(fs, locked) == mutations \cup {[field |-> f, locked |-> locked] : f \in fs}

IsDuplicate_never(msg) == FALSE

\* msg.guid in self.state.processed_guids
IsDuplicate(msg) == msg.guid \in processed_guids

\* the senders of rows in the order of their first row (by_sender's key order)
RECURSIVE SenderOrder(_)
SenderOrder(rows) ==
    IF rows = <<>> THEN <<>>
    ELSE <<Head(rows).sender>> \o
         SenderOrder(SelectSeq(Tail(rows), LAMBDA r : r.sender # Head(rows).sender))

\* one task for all the rows, under the first row's sender
NewUnits_single(rows) ==
    IF rows = <<>> THEN <<>>
    ELSE << [sender |-> Head(rows).sender, rows |-> rows,
             rpc |-> [i \in 1..Len(rows) |-> "new"], pc |-> "created"] >>

\* one task per sender of to_process, carrying that sender's rows in order
NewUnits(rows) ==
    LET order == SenderOrder(rows) IN
    [k \in 1..Len(order) |->
        LET mine == SelectSeq(rows, LAMBDA r : r.sender = order[k]) IN
        [sender |-> order[k], rows |-> mine,
         rpc |-> [i \in 1..Len(mine) |-> "new"], pc |-> "created"]]

\* the callback starts: the re-entrancy guard, then the fetch.  poll_mtime is
\* the value the loop has stored in last_mtime before the call
InvokeCallback(poll_mtime) ==
    /\ callback_overlap' = (callback_overlap \/ cb_pc # "idle")
    /\ IF fetching
       THEN /\ w_pc' = "wait"
            /\ last_mtime' = mtime
            /\ UNCHANGED callback_vars
       ELSE /\ fetching' = TRUE
            /\ messages' = fetch_new_messages(last_rowid)
            /\ to_process' = <<>>
            /\ cb_pc' = "classify"
            /\ w_pc' = "callback"
            /\ last_mtime' = poll_mtime
    /\ UNCHANGED << store, mtime, fs_queued, pending_handle >>
    /\ UNCHANGED << state_vars, unit_vars, sent_vars, other_vars >>

\* lines 171-174: the identifier is in the dedup set
ClassifyDuplicate ==
    /\ cb_pc = "classify" /\ messages # <<>>
    /\ IsDuplicate(Head(messages))
    /\ last_rowid' = Max(last_rowid, Head(messages).rowid)
    /\ messages' = Tail(messages)
    /\ mutations' = Mutated({"last_rowid"}, StateLocked)
    /\ UNCHANGED << processed_guids, insert_order, disk, fetching, cb_pc, to_process >>
    /\ UNCHANGED << store, mtime, detector_vars, unit_vars, sent_message_ids, other_vars >>

\* the cursor and the dedup set move in memory and nothing is saved
Advance_nosave(msg) ==
    /\ last_rowid' = msg.rowid
    /\ processed_guids' = processed_guids \cup {msg.guid}
    /\ insert_order' = Append(insert_order, msg.guid)
    /\ disk' = disk
    /\ mutations' = Mutated({"last_rowid", "processed_guids"}, StateLocked)

\* lines 178-181 and 184-187: the cursor, the dedup set, save()
Advance(msg) ==
    /\ last_rowid' = msg.rowid
    /\ processed_guids' = processed_guids \cup {msg.guid}
    /\ insert_order' = Append(insert_order, msg.guid)
    /\ disk' \in SaveChoices(msg.rowid, processed_guids \cup {msg.guid})
    /\ mutations' = Mutated({"last_rowid", "processed_guids"}, StateLocked)

\* lines 176-182: a junk row
ClassifyJunk ==
    /\ cb_pc = "classify" /\ messages # <<>>
    /\ ~IsDuplicate(Head(messages))
    /\ is_junk_message(Head(messages).text)
    /\ Advance(Head(messages))
    /\ messages' = Tail(messages)
    /\ UNCHANGED << fetching, cb_pc, to_process >>
    /\ UNCHANGED << store, mtime, detector_vars, unit_vars, sent_message_ids, other_vars >>

\* lines 184-189: a row to process
ClassifyProcess ==
    /\ cb_pc = "classify" /\ messages # <<>>
    /\ ~IsDuplicate(Head(messages))
    /\ ~is_junk_message(Head(messages).text)
    /\ Advance(Head(messages))
    /\ messages' = Tail(messages)
    /\ to_process' = Append(to_process, Head(messages))
    /\ UNCHANGED << fetching, cb_pc >>
    /\ UNCHANGED << store, mtime, detector_vars, unit_vars, sent_message_ids, other_vars >>

\* the tasks are not put in the set
Tracked_not(tracked, new) == tracked

\* line 208: self._active_tasks.add(task), for each task created
Tracked(tracked, new) == tracked \cup new

\* lines 191-212 and, back in start_watcher, line 115: the tasks are created,
\* the guard is released, the callback returns and the loop refreshes last_mtime
Dispatch ==
    /\ cb_pc = "classify" /\ messages = <<>>
    /\ units' = units \o NewUnits(to_process)
    /\ startQ' = startQ \o [k \in 1..Len(NewUnits(to_process)) |-> Len(units) + k]
    /\ active_tasks' = Tracked(active_tasks,
                               {Len(units) + k : k \in 1..Len(NewUnits(to_process))})
    /\ fetching' = FALSE
    /\ cb_pc' = "idle"
    /\ to_process' = <<>>
    /\ w_pc' = "wait"
    /\ last_mtime' = mtime
    /\ UNCHANGED << messages, lockHolder, lockWaiters, semValue >>
    /\ UNCHANGED << store, mtime, fs_queued, pending_handle, change_event,
                    callback_overlap, state_vars, sent_vars, other_vars >>

(* ------------------------------------------------------------------ *)
(* Change detector: _ChatDBHandler and start_watcher                   *)
(* ------------------------------------------------------------------ *)

\* the event loop is free to run another callback or task: on_chat_db_changed
\* has no suspension point (fetch_new_messages is a plain call, _state_lock is
\* taken by nobody else), so from its fetch to its return the loop runs nothing
LoopFree == cb_pc = "idle"

\* _ChatDBHandler._schedule, run by the loop for a queued on_modified
Schedule ==
    /\ LoopFree
    /\ fs_queued
    /\ fs_queued' = FALSE
    /\ pending_handle' = TRUE
    /\ UNCHANGED << change_event, w_pc, last_mtime, callback_overlap >>
    /\ UNCHANGED << store, mtime, callback_vars, state_vars, unit_vars, sent_vars,
                    other_vars >>

\* _ChatDBHandler._fire, when the debounce timer elapses
Fire ==
    /\ LoopFree
    /\ pending_handle
    /\ pending_handle' = FALSE
    /\ change_event' = TRUE
    /\ UNCHANGED << fs_queued, w_pc, last_mtime, callback_overlap >>
    /\ UNCHANGED << store, mtime, callback_vars, state_vars, unit_vars, sent_vars,
                    other_vars >>

LoopWaiting_any == TRUE

\* the loop is at line 100, in wait_for
LoopWaiting == w_pc = "wait"

\* lines 100-102 and 112: the event is set
WatcherEvent ==
    /\ LoopWaiting
    /\ change_event
    /\ change_event' = FALSE
    /\ InvokeCallback(last_mtime)

\* lines 103-109 and 112: the wait timed out and the store's mtime moved
WatcherPoll ==
    /\ LoopWaiting
    /\ ~change_event
    /\ mtime > last_mtime
    /\ UNCHANGED change_event
    /\ InvokeCallback(mtime)

(* ------------------------------------------------------------------ *)
(* Per-sender units: _process_user_batch and the routing of one row    *)
(* ------------------------------------------------------------------ *)

UnitIds == 1..Len(units)

RowIdx(u) == 1..Len(units[u].rows)

\* what a user-status lookup can answer (None, or the status of the record)
Statuses == {"none", "pending", "onboarding", "active", "active_noid", "other"}

LockFree_always(s) == TRUE

\* every sender waits for the one lock
LockFree_global(s) ==
    \A t \in Senders : lockHolder[t] = 0 /\ lockWaiters[t] = <<>>

\* asyncio.Lock.acquire takes the lock at once: not locked and nobody waiting
LockFree(s) == lockHolder[s] = 0 /\ lockWaiters[s] = <<>>

\* the first step of the oldest created task: async with self._user_locks[sender]
UnitStart ==
    /\ LoopFree
    /\ startQ # <<>>
    /\ LET u == Head(startQ)
           s == units[u].sender
       IN  IF LockFree(s)
           THEN /\ lockHolder' = [lockHolder EXCEPT ![s] = u]
                /\ units' = [units EXCEPT ![u].pc = "running"]
                /\ UNCHANGED lockWaiters
           ELSE /\ lockWaiters' = [lockWaiters EXCEPT ![s] = Append(@, u)]
                /\ units' = [units EXCEPT ![u].pc = "lock_wait"]
                /\ UNCHANGED lockHolder
    /\ startQ' = Tail(startQ)
    /\ UNCHANGED << semValue, active_tasks, sent_vars >>
    /\ UNCHANGED << store, mtime, detector_vars, callback_vars, state_vars,
                    other_vars >>

MayStartRow_nowait(u, i) == TRUE

\* for msg in messages: ... await self._route_message(msg): row i is reached
\* when the routing of row i-1 has returned or raised
MayStartRow(u, i) == IF i = 1 THEN TRUE ELSE units[u].rpc[i - 1] = "done"

\* a step of a unit is run by the loop and leaves everything but the units and
\* the semaphore alone
UnitFrame ==
    /\ LoopFree
    /\ UNCHANGED << startQ, lockHolder, lockWaiters >>
    /\ UNCHANGED << store, mtime, detector_vars, callback_vars, state_vars,
                    other_vars >>

\* lines 217-235: the loop reaches row i and starts its user-status lookup
BeginRow(u, i) ==
    /\ units[u].pc = "running"
    /\ units[u].rpc[i] = "new"
    /\ MayStartRow(u, i)
    /\ units' = [units EXCEPT ![u].rpc[i] = "lookup"]
    /\ UNCHANGED << semValue, active_tasks >>
    /\ UNCHANGED sent_vars
    /\ UnitFrame

SemFree_always == TRUE

\* asyncio.Semaphore.acquire passes: a permit is free
SemFree == semValue > 0

\* the user_id is not looked at
ProcessActive_any(u, i, has_user_id) ==
    IF SemFree
    THEN /\ units' = [units EXCEPT ![u].rpc[i] = "agent_call"]
         /\ semValue' = semValue - 1 /\ UNCHANGED active_tasks
    ELSE /\ units' = [units EXCEPT ![u].rpc[i] = "sem_wait"]
         /\ UNCHANGED << semValue, active_tasks >>

\* _process_active_user up to the agent call: no user_id, the error reply is
\* handed to send_imessage (line 481) and no call is made; else the semaphore,
\* and the call once a permit is held
ProcessActive(u, i, has_user_id) ==
    IF ~has_user_id
    THEN /\ units' = [units EXCEPT ![u].rpc[i] = "error_reply"]
         /\ UNCHANGED << semValue, active_tasks >>
    ELSE IF SemFree
    THEN /\ units' = [units EXCEPT ![u].rpc[i] = "agent_call"]
         /\ semValue' = semValue - 1 /\ UNCHANGED active_tasks
    ELSE /\ units' = [units EXCEPT ![u].rpc[i] = "sem_wait"]
         /\ UNCHANGED << semValue, active_tasks >>

\* _route_message lines 241-251: the branch taken for the answer st of
\* _get_user_info
route_message(u, i, st) ==
    CASE st = "none" ->
           units' = [units EXCEPT ![u].rpc[i] = "create"] /\ UNCHANGED << semValue, active_tasks >>
      [] st \in {"pending", "onboarding"} ->
           units' = [units EXCEPT ![u].rpc[i] = "relookup"] /\ UNCHANGED << semValue, active_tasks >>
      [] st = "active" -> ProcessActive(u, i, TRUE)
      [] st = "active_noid" -> ProcessActive(u, i, FALSE)
      [] OTHER ->
           units' = [units EXCEPT ![u].rpc[i] = "done"] /\ UNCHANGED << semValue, active_tasks >>

\* _route_message after _get_user_info answered
LookupReturn(u, i) ==
    /\ units[u].rpc[i] = "lookup"
    /\ \E st \in Statuses : route_message(u, i, st)
    /\ UNCHANGED sent_vars
    /\ UnitFrame

\* _onboard_new_user after the POST that creates the account answered
CreateReturn(u, i) ==
    /\ units[u].rpc[i] = "create"
    /\ \E res \in {"created", "conflict", "error"} :
          units' = [units EXCEPT ![u].rpc[i] =
                       CASE res = "created" -> "onboard_call"
                         [] res = "conflict" -> "refetch"
                         [] OTHER -> "done"]
    /\ UNCHANGED << semValue, active_tasks >>
    /\ UNCHANGED sent_vars
    /\ UnitFrame

\* _onboard_new_user lines 310-315: the re-fetch after a conflict answered st
RefetchReturn(u, i) ==
    /\ units[u].rpc[i] = "refetch"
    /\ \E st \in Statuses :
          CASE st = "active" -> ProcessActive(u, i, TRUE)
            [] st = "active_noid" -> ProcessActive(u, i, FALSE)
            [] st = "none" ->
                 units' = [units EXCEPT ![u].rpc[i] = "done"] /\ UNCHANGED << semValue, active_tasks >>
            [] OTHER ->
                 units' = [units EXCEPT ![u].rpc[i] = "relookup"] /\ UNCHANGED << semValue, active_tasks >>
    /\ UNCHANGED sent_vars
    /\ UnitFrame

\* _continue_onboarding after its fresh lookup answered st
RelookupReturn(u, i) ==
    /\ units[u].rpc[i] = "relookup"
    /\ \E st \in Statuses :
          IF st = "active"
          THEN ProcessActive(u, i, TRUE)
          ELSE units' = [units EXCEPT ![u].rpc[i] = "onboard_call"] /\ UNCHANGED << semValue, active_tasks >>
    /\ UNCHANGED sent_vars
    /\ UnitFrame

\* _call_onboard_chat after the POST to v2-onboard-chat answered or raised: the
\* reply is handed to send_imessage; after a status other than 200 or an
\* exception (a timeout, a body that is not JSON) the fallback text is; an empty
\* response is logged and nothing is sent
OnboardReturn(u, i) ==
    /\ units[u].rpc[i] = "onboard_call"
    /\ \E res \in {"ok", "non200", "empty", "exception"} :
          units' = [units EXCEPT ![u].rpc[i] =
                       CASE res = "ok" -> "deliver"
                         [] res = "empty" -> "done"
                         [] OTHER -> "fallback"]
    /\ UNCHANGED << semValue, active_tasks >>
    /\ UNCHANGED sent_vars
    /\ UnitFrame

\* send_imessage of the fallback text returned (lines 460 and 474)
FallbackReturn(u, i) ==
    /\ units[u].rpc[i] = "fallback"
    /\ units' = [units EXCEPT ![u].rpc[i] = "done"]
    /\ UNCHANGED << semValue, active_tasks >>
    /\ UNCHANGED sent_vars
    /\ UnitFrame

\* a unit waiting in async with self._agent_semaphore gets a permit
SemAcquire(u, i) ==
    /\ units[u].rpc[i] = "sem_wait"
    /\ SemFree
    /\ units' = [units EXCEPT ![u].rpc[i] = "agent_call"]
    /\ semValue' = semValue - 1 /\ UNCHANGED active_tasks
    /\ UNCHANGED sent_vars
    /\ UnitFrame

\* the reply identifiers a response may carry ("none": no response_id)
ResponseIds == {"none", "r1"}

\* _forward_to_agent_streaming returned or raised; the permit is given back.
\* With a text: lines 498-502 record the reply identifier, then the text is
\* handed to send_imessage.  Without one: nothing is sent.  After a status
\* other than 200, a timeout or another exception: the exception leaves
\* _process_active_user and _route_message
AgentReturn(u, i) ==
    /\ units[u].rpc[i] = "agent_call"
    /\ \E res \in {"text", "empty", "error"} : \E rid \in ResponseIds :
          /\ units' = [units EXCEPT ![u].rpc[i] =
                          CASE res = "text" -> "deliver"
                            [] res = "empty" -> "done"
                            [] OTHER -> "raised"]
          /\ IF res = "text" /\ rid # "none"
             THEN /\ sent_message_ids' = sent_message_ids \cup {rid}
                  /\ mutations' = Mutated({"sent_message_ids"}, FALSE)
             ELSE UNCHANGED sent_vars
    /\ semValue' = semValue + 1 /\ UNCHANGED active_tasks
    /\ UnitFrame

AfterRaise_abort(u, i) ==
    [units EXCEPT ![u].rpc[i] = "done", ![u].pc = "aborted"]

\* the units after the exception of row i reached _process_user_batch: except
\* Exception logs it and the for loop goes on
AfterRaise(u, i) == [units EXCEPT ![u].rpc[i] = "done"]

\* lines 229-232: the exception raised while routing row i is caught
CatchRow(u, i) ==
    /\ units[u].rpc[i] = "raised"
    /\ units' = AfterRaise(u, i)
    /\ UNCHANGED << semValue, active_tasks >>
    /\ UNCHANGED sent_vars
    /\ UnitFrame

\* send_imessage of a reply or of the error text returned
DeliverReturn(u, i) ==
    /\ units[u].rpc[i] \in {"deliver", "error_reply"}
    /\ units' = [units EXCEPT ![u].rpc[i] = "done"]
    /\ UNCHANGED << semValue, active_tasks >>
    /\ UNCHANGED sent_vars
    /\ UnitFrame

\* the for loop is exhausted: the lock is released to the first waiter
UnitFinish(u) ==
    /\ LoopFree
    /\ units[u].pc = "running"
    /\ \A i \in RowIdx(u) : units[u].rpc[i] = "done"
    /\ LET s == units[u].sender IN
       IF lockWaiters[s] # <<>>
       THEN /\ lockHolder' = [lockHolder EXCEPT ![s] = Head(lockWaiters[s])]
            /\ lockWaiters' = [lockWaiters EXCEPT ![s] = Tail(@)]
            /\ units' = [units EXCEPT ![u].pc = "done",
                                      ![Head(lockWaiters[s])].pc = "running"]
       ELSE /\ lockHolder' = [lockHolder EXCEPT ![s] = 0]
            /\ UNCHANGED lockWaiters
            /\ units' = [units EXCEPT ![u].pc = "done"]
    /\ UNCHANGED << startQ, semValue, active_tasks, sent_vars >>
    /\ UNCHANGED << store, mtime, detector_vars, callback_vars, state_vars,
                    other_vars >>

UnitStep ==
    \/ UnitStart
    \/ \E u \in UnitIds : UnitFinish(u)
    \/ \E u \in UnitIds : \E i \in RowIdx(u) : BeginRow(u, i)
    \/ \E u \in UnitIds : \E i \in RowIdx(u) : LookupReturn(u, i)
    \/ \E u \in UnitIds : \E i \in RowIdx(u) : CreateReturn(u, i)
    \/ \E u \in UnitIds : \E i \in RowIdx(u) : RefetchReturn(u, i)
    \/ \E u \in UnitIds : \E i \in RowIdx(u) : RelookupReturn(u, i)
    \/ \E u \in UnitIds : \E i \in RowIdx(u) : OnboardReturn(u, i)
    \/ \E u \in UnitIds : \E i \in RowIdx(u) : SemAcquire(u, i)
    \/ \E u \in UnitIds : \E i \in RowIdx(u) : AgentReturn(u, i)
    \/ \E u \in UnitIds : \E i \in RowIdx(u) : DeliverReturn(u, i)
    \/ \E u \in UnitIds : \E i \in RowIdx(u) : FallbackReturn(u, i)
    \/ \E u \in UnitIds : \E i \in RowIdx(u) : CatchRow(u, i)

(* ------------------------------------------------------------------ *)
(* Specifications                                                      *)
(* ------------------------------------------------------------------ *)

\* no agent turn is looked at
TurnInit ==
    /\ chunks = <<>>
    /\ stream_pos = 0
    /\ buffer = <<>>
    /\ response_text = ""
    /\ last_response_id = "none"
    /\ delivered = <<>>
    /\ turn_pc = "idle"
    /\ status_code = 200
    /\ raised_by = "none"

\* the process is up and no cleanup has begun
LifeInit ==
    /\ proc_pc = "up"
    /\ current_max = 0
    /\ sd_pc = "running"
    /\ watcher_error = "none"

\* the state document is the one of the last save()
FileInit ==
    /\ disk_kind = "ok"
    /\ tmp_file = [kind |-> "absent", doc |-> EmptyDoc]
    /\ save_pc = "idle"

\* the reply identifiers of the replies whose delivery is followed
ReplyIds == {"r1", "r2"}

\* no reply has come back from the agent and no delivery is looked at
DeliveryInit ==
    /\ proc_turn = [r \in ReplyIds |-> "none"]
    /\ listener = [r \in ReplyIds |-> "none"]
    /\ confirmed = [r \in ReplyIds |-> 0]
    /\ n_chunks = 0
    /\ chunk_i = 0
    /\ attempt = 0
    /\ send_log = <<>>
    /\ send_pc = "idle"

\* the result of a call that found no text: None
NoText == [some |-> FALSE, text |-> <<>>]

\* no blob is being decoded
DecodeIdle ==
    /\ blob = <<>>
    /\ built = [kind |-> "none", marker |-> <<>>, payload |-> <<>>, terminator |-> 0]
    /\ extracted = NoText
    /\ dec_pc = "idle"

\* what a lookup that found no record, or failed, hands back: None
NoInfo == [status |-> "none", src |-> "none"]

\* no row is being routed; the cache of a new MessageProcessor is empty
OnboardIdle ==
    /\ account = "none"
    /\ user_cache = "absent"
    /\ ob_pc = "idle"
    /\ user_info = NoInfo
    /\ fresh_info = NoInfo
    /\ ob_info = NoInfo

\* _ChatDBHandler.__init__ and start_watcher before its loop: no timer, the
\* event clear, last_mtime just read
DebounceInit ==
    /\ ready_q = <<>>
    /\ timers = <<>>
    /\ handle = 0
    /\ pushes = 0
    /\ gap = "far"
    /\ bursts = 0
    /\ ev_flag = FALSE
    /\ flag_sets = 0
    /\ dw_pc = "wait"
    /\ dirty = FALSE
    /\ set_in_cb = FALSE
    /\ woke_on = "none"

ExtraIdle ==
    /\ OnboardIdle
    /\ DebounceInit
    /\ stuck = 0
    /\ before_stop = {}

\* MessageProcessor.__init__ and start_watcher before the loop
CoreInit ==
    /\ fs_queued = FALSE
    /\ pending_handle = FALSE
    /\ change_event = FALSE
    /\ w_pc = "wait"
    /\ callback_overlap = FALSE
    /\ fetching = FALSE
    /\ cb_pc = "idle"
    /\ messages = <<>>
    /\ to_process = <<>>
    /\ units = <<>>
    /\ startQ = <<>>
    /\ lockHolder = [s \in Senders |-> 0]
    /\ lockWaiters = [s \in Senders |-> <<>>]
    /\ semValue = MAX_CONCURRENT_AGENTS
    /\ active_tasks = {}
    /\ mutations = {}

Init ==
    /\ store = <<>>
    /\ mtime = 0
    /\ last_mtime = 0
    /\ last_rowid = 0
    /\ processed_guids = {}
    /\ insert_order = <<>>
    /\ disk = EmptyDoc
    /\ sent_message_ids = {}
    /\ CoreInit
    /\ TurnInit
    /\ LifeInit
    /\ FileInit
    /\ DeliveryInit
    /\ DecodeIdle
    /\ ExtraIdle

Next ==
    \/ \E notify \in BOOLEAN : \E replay \in BOOLEAN : WriterAppend(notify, replay)
    \/ Schedule
    \/ Fire
    \/ WatcherEvent
    \/ WatcherPoll
    \/ ClassifyDuplicate
    \/ ClassifyJunk
    \/ ClassifyProcess
    \/ Dispatch
    \/ UnitStep

Spec == Init /\ [][Next]_vars

\* the detector and the callback up to the creation of the units
NextIngest ==
    \/ \E notify \in BOOLEAN : \E replay \in BOOLEAN : WriterAppend(notify, replay)
    \/ Schedule
    \/ Fire
    \/ WatcherEvent
    \/ WatcherPoll
    \/ ClassifyDuplicate
    \/ ClassifyJunk
    \/ ClassifyProcess
    \/ Dispatch

SpecIngest == Init /\ [][NextIngest]_vars

\* the callback and the units, fed by the poll fallback
NextUnits ==
    \/ WriterAppend(FALSE, FALSE)
    \/ WatcherPoll
    \/ ClassifyJunk
    \/ ClassifyProcess
    \/ Dispatch
    \/ UnitStep

SpecUnits == Init /\ [][NextUnits]_vars


\* the detector loop, the timers and the callback always get to run; the
\* external writer and the file system notifications are under no obligation
FairSpecIngest ==
    /\ Init
    /\ [][NextIngest]_vars
    /\ WF_vars(Schedule)
    /\ WF_vars(Fire)
    /\ WF_vars(WatcherEvent)
    /\ WF_vars(WatcherPoll)
    /\ WF_vars(ClassifyDuplicate)
    /\ WF_vars(ClassifyJunk)
    /\ WF_vars(ClassifyProcess)
    /\ WF_vars(Dispatch)

\* the scenario of the spec's section 8: the store holds row 100 ("hi") and row
\* 101 (the tapback text) of one sender, the cursor is 99 and the store has
\* changed since the loop last looked
InitScenario ==
    /\ store = << Row(100, 1, 1, TextHi), Row(101, 2, 1, TextTapback) >>
    /\ mtime = 1
    /\ last_mtime = 0
    /\ last_rowid = 99
    /\ processed_guids = {}
    /\ insert_order = <<>>
    /\ disk = [last_rowid |-> 99, processed_guids |-> {}]
    /\ sent_message_ids = {}
    /\ CoreInit
    /\ TurnInit
    /\ LifeInit
    /\ FileInit
    /\ DeliveryInit
    /\ DecodeIdle
    /\ ExtraIdle

SpecScenario == InitScenario /\ [][Next]_vars

(* ------------------------------------------------------------------ *)
(* Properties                                                          *)
(* ------------------------------------------------------------------ *)

\* the places <<u, i>> of the rows handed to units
UnitRows == {p \in UnitIds \X (1..MaxRows) : p[2] \in RowIdx(p[1])}

RowAt(p) == units[p[1]].rows[p[2]]

PcAt(p) == units[p[1]].rpc[p[2]]

\* store[k] is an earlier message observed again
IsReplay(k) == \E j \in 1..(k - 1) : store[j].guid = store[k].guid

\* C1: whatever the detector firings, every row identifier is handed to a
\* per-sender unit at most once
C1_DispatchedAtMostOnce ==
    \A p \in UnitRows : \A q \in UnitRows :
        RowAt(p).guid = RowAt(q).guid => p = q

\* a row with an identifier of the dedup set was observed again, the cursor has
\* passed it, the invocation is over and the identifier was dispatched
C1_Witness ==
    /\ cb_pc = "idle"
    /\ \E k \in 1..Len(store) :
          /\ IsReplay(k)
          /\ last_rowid >= store[k].rowid
          /\ \E p \in UnitRows : RowAt(p).guid = store[k].guid

\* C2: inside a unit, the routing of a row (its lookup first) does not start
\* before the routing of every earlier row of the unit has completed
C2_RowsInOrder ==
    \A u \in UnitIds : \A i \in RowIdx(u) : \A j \in RowIdx(u) :
        (i < j /\ units[u].rpc[j] # "new") => units[u].rpc[i] = "done"

\* a unit of two rows is routing its second row
C2_Witness ==
    \E u \in UnitIds :
        /\ Len(units[u].rows) >= 2
        /\ units[u].rpc[1] = "done"
        /\ units[u].rpc[2] \notin {"new", "done"}

\* C3: of the units of one sender at most one is processing rows; the units
\* carry ascending positions and a later unit starts no row before the
\* earlier unit has finished all of its rows
C3_SenderSerialised ==
    \A u \in UnitIds : \A v \in UnitIds :
        (u < v /\ units[u].sender = units[v].sender) =>
            /\ ~(units[u].pc = "running" /\ units[v].pc = "running")
            /\ \A i \in RowIdx(u) : \A j \in RowIdx(v) :
                  /\ units[u].rows[i].rowid < units[v].rows[j].rowid
                  /\ units[v].rpc[j] # "new" => units[u].rpc[i] = "done"

\* two units of one sender: the later one waits for the lock while the earlier
\* one is routing a row
C3_Witness ==
    \E u \in UnitIds : \E v \in UnitIds :
        /\ u < v
        /\ units[u].sender = units[v].sender
        /\ units[u].pc = "running"
        /\ units[v].pc = "lock_wait"
        /\ \E i \in RowIdx(u) : units[u].rpc[i] \notin {"new", "done"}

AgentCalls == {p \in UnitRows : PcAt(p) = "agent_call"}

OnboardCalls == {p \in UnitRows : PcAt(p) = "onboard_call"}

\* C4 as stated: the calls to the agent and to the onboarding collaborator in
\* flight are together at most the cap
C4_AllCallsCapped ==
    Cardinality(AgentCalls \cup OnboardCalls) <= MAX_CONCURRENT_AGENTS

\* C4 amended: the agent calls in flight are at most the cap, they are the
\* permits taken, and every sender has at most one call of either kind in flight
C4_AgentCallsCapped ==
    /\ Cardinality(AgentCalls) <= MAX_CONCURRENT_AGENTS
    /\ semValue = MAX_CONCURRENT_AGENTS - Cardinality(AgentCalls)
    /\ \A p \in AgentCalls \cup OnboardCalls : \A q \in AgentCalls \cup OnboardCalls :
          units[p[1]].sender = units[q[1]].sender => p = q

\* the cap is reached and another sender's unit waits for a permit
C4_Witness ==
    /\ Cardinality(AgentCalls) = MAX_CONCURRENT_AGENTS
    /\ \E p \in UnitRows : PcAt(p) = "sem_wait"

C6_PersistBeforeDispatch ==
    [][/\ Len(to_process') > Len(to_process) =>
            LET r == to_process'[Len(to_process')] IN
            /\ Cardinality({n \in 1..Len(insert_order') : insert_order'[n] = r.guid}) = 1
            /\ disk'.last_rowid >= r.rowid
            /\ r.guid \in disk'.processed_guids
       /\ \A u \in (1..Len(units')) \ (1..Len(units)) :
             \A i \in 1..Len(units'[u].rows) :
                disk.last_rowid >= units'[u].rows[i].rowid]_vars

\* C7: the callback is never invoked while an invocation is running, and the
\* loop is back in its wait only when the callback has returned
C7_SingleFlight ==
    /\ ~callback_overlap
    /\ (w_pc = "wait") <=> (cb_pc = "idle")

\* while the callback is running, the store's mtime has moved and a
\* notification of the write is queued for the loop
C7_Witness ==
    /\ cb_pc # "idle"
    /\ fs_queued
    /\ mtime > last_mtime

\* the steps the detector and the callback take without a new store change
DetectorStep ==
    \/ Schedule
    \/ Fire
    \/ WatcherEvent
    \/ WatcherPoll
    \/ ClassifyDuplicate
    \/ ClassifyJunk
    \/ ClassifyProcess
    \/ Dispatch

\* C8: every row appended to the store is eventually fetched.  Under the
\* fairness of the loop this needs that a row the cursor has not reached
\* always leaves the detector or the callback a step to take: where it leaves
\* none, the row waits for the writer's next write, which need not come
C8_NoRowStranded == (last_rowid < MaxRowid) => ENABLED DetectorStep

\* C8 as a temporal property, for FairSpecIngest: every row appended to the
\* store is eventually fetched and accounted for by the cursor
C8_EveryRowFetched ==
    \A k \in 1..MaxRows : (Len(store) >= k) ~> (last_rowid >= k)

\* the last n entries of a sequence, as a set
LastOf(seq, n) == {seq[k] : k \in (Max(0, Len(seq) - n) + 1)..Len(seq)}

\* C9: the dedup set never holds more than its capacity, and what is kept when
\* the capacity is exceeded are the newest identifiers by insertion
C9_BoundedOldestFirst ==
    /\ Cardinality(processed_guids) <= MAX_PROCESSED_GUIDS
    /\ processed_guids = LastOf(insert_order, MAX_PROCESSED_GUIDS)
    /\ disk.processed_guids = LastOf(insert_order, MAX_PROCESSED_GUIDS)

\* C10: in the scenario, once the invocation that fetched rows 100 and 101 is
\* over, row 100 is in a unit, row 101 was advanced as junk and is in no unit
\* (so the only outbound call is the one of row 100), and the cursor is 101
C10_JunkScenario ==
    (cb_pc = "idle" /\ last_rowid > 99) =>
        /\ \E p \in UnitRows : RowAt(p).rowid = 100
        /\ \A p \in UnitRows : RowAt(p).rowid # 101
        /\ 2 \in processed_guids
        /\ last_rowid >= 101
        /\ Len(store) = 2 => last_rowid = 101

(* ------------------------------------------------------------------ *)
(* One agent turn: _process_active_user and                            *)
(* _forward_to_agent_streaming on an NDJSON response                   *)
(* ------------------------------------------------------------------ *)

\* events of one response stream
MaxEvents == 2

\* the body of an NDJSON response is a sequence of symbols: "NL" is a newline,
\* "SP" a blank, and a JSON object is a head followed by "}", so that a chunk
\* may end inside an object
EventHeads == {"{ack", "{ack0", "{response", "{error", "{bad"}

\* a line that is JSON but not an object, such as null or []: one symbol
NonObjects == {"null"}

\* json.loads(line) and the fields the loop reads; "{bad" is a line that is
\* not JSON, "{ack0" an ack without text
Event(head) ==
    CASE head = "{ack" -> [type |-> "ack", text |-> "One sec.", response_id |-> "none"]
      [] head = "{ack0" -> [type |-> "ack", text |-> "", response_id |-> "none"]
      [] head = "{response" -> [type |-> "response", text |-> "Done.", response_id |-> "r1"]
      [] head = "{error" -> [type |-> "error", text |-> "", response_id |-> "none"]
      [] OTHER -> [type |-> "bad", text |-> "", response_id |-> "none"]

\* line.strip() on the symbols of the model
RECURSIVE StripLeft(_)
StripLeft(l) == IF l # <<>> /\ Head(l) = "SP" THEN StripLeft(Tail(l)) ELSE l

RECURSIVE StripRight(_)
StripRight(l) ==
    IF l # <<>> /\ l[Len(l)] = "SP" THEN StripRight(SubSeq(l, 1, Len(l) - 1)) ELSE l

\* lines 641-650: the event of one line; "skip" for an empty line, "bad" for
\* a line json.loads rejects, "value" for a line it accepts that is no object
ParseLine(line) ==
    LET l == StripRight(StripLeft(line)) IN
    IF l = <<>> THEN [type |-> "skip", text |-> "", response_id |-> "none"]
    ELSE IF Len(l) = 2 /\ l[1] \in EventHeads /\ l[2] = "}" THEN Event(l[1])
    ELSE IF Len(l) = 1 /\ l[1] \in NonObjects
    THEN [type |-> "value", text |-> "", response_id |-> "none"]
    ELSE [type |-> "bad", text |-> "", response_id |-> "none"]

\* position of the first newline of buf, 0 if there is none
FirstNL(buf) ==
    IF \E k \in 1..Len(buf) : buf[k] = "NL"
    THEN CHOOSE k \in 1..Len(buf) : buf[k] = "NL" /\ \A j \in 1..(k - 1) : buf[j] # "NL"
    ELSE 0

\* the trailing text is taken for a line although its newline has not arrived
RECURSIVE LinesOf_partial(_)
LinesOf_partial(buf) ==
    IF FirstNL(buf) = 0 THEN (IF buf = <<>> THEN <<>> ELSE <<buf>>)
    ELSE <<SubSeq(buf, 1, FirstNL(buf) - 1)>>
         \o LinesOf_partial(SubSeq(buf, FirstNL(buf) + 1, Len(buf)))

\* lines 639-640: while "\n" in buffer: line, buffer = buffer.split("\n", 1);
\* the lines taken off the buffer, in order
RECURSIVE LinesOf(_)
LinesOf(buf) ==
    IF FirstNL(buf) = 0 THEN <<>>
    ELSE <<SubSeq(buf, 1, FirstNL(buf) - 1)>>
         \o LinesOf(SubSeq(buf, FirstNL(buf) + 1, Len(buf)))

\* what a chunk leaves after its last newline is thrown away
RestOf_drop(buf) == <<>>

\* what is left in the buffer when no newline is left
RECURSIVE RestOf(_)
RestOf(buf) ==
    IF FirstNL(buf) = 0 THEN buf
    ELSE RestOf(SubSeq(buf, FirstNL(buf) + 1, Len(buf)))

ForwardAck_never(ev) == FALSE

\* lines 652-656: an ack with a text is handed to send_imessage at once
ForwardAck(ev) == ev.type = "ack" /\ ev.text # ""

\* the texts handed to send_imessage while the lines are handled, in order
RECURSIVE AckTexts(_)
AckTexts(lines) ==
    IF lines = <<>> THEN <<>>
    ELSE (IF ForwardAck(ParseLine(Head(lines)))
          THEN <<ParseLine(Head(lines)).text>> ELSE <<>>)
         \o AckTexts(Tail(lines))

\* lines 658-660: response_text and the reply identifier after the lines, from
\* the values before them
RECURSIVE ResponseAfter(_, _)
ResponseAfter(lines, before) ==
    IF lines = <<>> THEN before
    ELSE ResponseAfter(Tail(lines),
             IF ParseLine(Head(lines)).type = "response"
             THEN [text |-> ParseLine(Head(lines)).text,
                   id |-> ParseLine(Head(lines)).response_id]
             ELSE before)

\* an error event ends the loop as well
Raising_error(ev) == ev.type \in {"value", "error"}

\* the events on which the body of the loop raises: lines 652-665 raise on no
\* ack, response or error event and skip every other type
Raising(ev) == ev.type = "value"

\* line 650: event.get raises AttributeError on a value that is no object, and
\* nothing in _forward_to_agent_streaming catches it; the lines handled before
\* that, all of them when no line is such a value
RECURSIVE Handled(_)
Handled(lines) ==
    IF lines = <<>> \/ Raising(ParseLine(Head(lines))) THEN <<>>
    ELSE <<Head(lines)>> \o Handled(Tail(lines))

\* buf after n of its lines were split off
RECURSIVE DropLines(_, _)
DropLines(buf, n) ==
    IF n = 0 \/ FirstNL(buf) = 0 THEN buf
    ELSE DropLines(SubSeq(buf, FirstNL(buf) + 1, Len(buf)), n - 1)

\* the state of one turn changes, nothing else does
TurnFrame ==
    /\ UNCHANGED << store, mtime, detector_vars, callback_vars, state_vars, unit_vars,
                    mutations, life_vars, file_vars, delivery_vars, decode_vars, extra_vars >>

\* every status is taken for a success
StatusOk_any == TRUE

\* line 624: the response stream starts with status 200
StatusOk == status_code = 200

\* lines 637-666: aiter_text yields the next chunk (its size is the
\* transport's choice); every complete line of the buffer is handled, up to a
\* line on which event.get raises
StreamRead ==
    /\ turn_pc = "stream"
    /\ StatusOk
    /\ stream_pos < Len(chunks)
    /\ \E n \in 1..(Len(chunks) - stream_pos) :
          LET chunk == SubSeq(chunks, stream_pos + 1, stream_pos + n)
              buf == buffer \o chunk
              lines == Handled(LinesOf(buf))
              after == ResponseAfter(lines,
                                     [text |-> response_text, id |-> last_response_id])
          IN  /\ stream_pos' = stream_pos + n
              /\ buffer' = IF Len(lines) < Len(LinesOf(buf))
                           THEN DropLines(buf, Len(lines) + 1) ELSE RestOf(buf)
              /\ delivered' = delivered \o AckTexts(lines)
              /\ response_text' = after.text
              /\ last_response_id' = after.id
              /\ IF Len(lines) < Len(LinesOf(buf))
                 THEN turn_pc' = "raised" /\ raised_by' = "event"
                 ELSE UNCHANGED << turn_pc, raised_by >>
    /\ UNCHANGED << chunks, status_code, sent_message_ids >>
    /\ TurnFrame

\* lines 625-627: after a status other than 200 the body is read chunk by chunk
\* into body_text and nothing is parsed
ErrorBodyRead ==
    /\ turn_pc = "stream"
    /\ ~StatusOk
    /\ stream_pos < Len(chunks)
    /\ \E n \in 1..(Len(chunks) - stream_pos) : stream_pos' = stream_pos + n
    /\ UNCHANGED << chunks, buffer, response_text, last_response_id, delivered,
                    turn_pc, status_code, raised_by, sent_message_ids >>
    /\ TurnFrame

\* lines 628-629: the body is exhausted and the RuntimeError is raised
StatusRaise ==
    /\ turn_pc = "stream"
    /\ ~StatusOk
    /\ stream_pos = Len(chunks)
    /\ turn_pc' = "raised"
    /\ raised_by' = "status"
    /\ UNCHANGED << chunks, stream_pos, buffer, response_text, last_response_id,
                    delivered, status_code, sent_message_ids >>
    /\ TurnFrame

\* _process_user_batch lines 229-232: the exception that left the turn is
\* caught and logged, and the for loop goes on
TurnCaught ==
    /\ turn_pc = "raised"
    /\ turn_pc' = "caught"
    /\ UNCHANGED << chunks, stream_pos, buffer, response_text, last_response_id,
                    delivered, status_code, raised_by, sent_message_ids >>
    /\ TurnFrame

\* lines 678-681: the read timed out; the RuntimeError leaves the turn
StreamTimeout ==
    /\ turn_pc = "stream"
    /\ stream_pos < Len(chunks)
    /\ turn_pc' = "raised"
    /\ raised_by' = "timeout"
    /\ UNCHANGED << chunks, stream_pos, buffer, response_text, last_response_id,
                    delivered, status_code, sent_message_ids >>
    /\ TurnFrame

\* lines 686-691 and 498-502: the stream is exhausted; without a response
\* text nothing is sent, else the reply identifier is recorded
StreamEnd ==
    /\ turn_pc = "stream"
    /\ StatusOk
    /\ stream_pos = Len(chunks)
    /\ IF response_text = ""
       THEN /\ turn_pc' = "done"
            /\ UNCHANGED sent_message_ids
       ELSE /\ turn_pc' = "deliver"
            /\ sent_message_ids' =
                  IF last_response_id # "none"
                  THEN sent_message_ids \cup {last_response_id}
                  ELSE sent_message_ids
    /\ UNCHANGED << chunks, stream_pos, buffer, response_text, last_response_id,
                    delivered, status_code, raised_by >>
    /\ TurnFrame

\* line 509: the terminal text is handed to send_imessage
TurnDeliver ==
    /\ turn_pc = "deliver"
    /\ delivered' = Append(delivered, response_text)
    /\ turn_pc' = "done"
    /\ UNCHANGED << chunks, stream_pos, buffer, response_text, last_response_id,
                    status_code, raised_by, sent_message_ids >>
    /\ TurnFrame

\* the bodies of a response: up to MaxEvents lines, each a JSON object with or
\* without a blank before it, the last one with or without its newline
RECURSIVE Bodies(_)
Bodies(n) ==
    IF n = 0 THEN {<<>>}
    ELSE Bodies(n - 1)
         \cup {b \o pre \o <<h, "}", "NL">> :
                  b \in Bodies(n - 1), pre \in {<<>>, <<"SP">>}, h \in EventHeads}

Streams ==
    Bodies(MaxEvents)
    \cup {SubSeq(b, 1, Len(b) - 1) : b \in Bodies(MaxEvents) \ {<<>>}}

\* the stream of the spec's scenario: ack("One sec.") then
\* response("Done.", "r1")
ScenarioStream == <<"{ack", "}", "NL", "{response", "}", "NL">>

\* _forward_to_agent_streaming has received status 200 and an NDJSON content type
InitStream ==
    /\ store = <<>>
    /\ mtime = 0
    /\ last_mtime = 0
    /\ last_rowid = 0
    /\ processed_guids = {}
    /\ insert_order = <<>>
    /\ disk = EmptyDoc
    /\ sent_message_ids = {}
    /\ CoreInit
    /\ LifeInit
    /\ FileInit
    /\ DeliveryInit
    /\ DecodeIdle
    /\ ExtraIdle
    /\ chunks \in Streams
    /\ stream_pos = 0
    /\ buffer = <<>>
    /\ response_text = ""
    /\ last_response_id = "none"
    /\ delivered = <<>>
    /\ turn_pc = "stream"
    /\ status_code = 200
    /\ raised_by = "none"

NextStream ==
    \/ StreamRead
    \/ StreamTimeout
    \/ StreamEnd
    \/ TurnDeliver

SpecStream == InitStream /\ [][NextStream]_vars

(* ------------------------------------------------------------------ *)
(* Properties of one agent turn                                        *)
(* ------------------------------------------------------------------ *)

\* the part of the body read so far
StreamRead_so_far == SubSeq(chunks, 1, stream_pos)

\* C11: every ack with a text is handed to the delivery collaborator when its
\* line is parsed, while the stream is still being read: at every moment the
\* deliveries made are the acks of the complete lines read so far, followed, once
\* the turn is over, by the terminal text; for the stream ack("One sec.") then
\* response("Done.", "r1") the deliveries are "One sec." then "Done." and the
\* recorded reply identifier is "r1"
C11_AckBeforeReply ==
    LET acks == AckTexts(LinesOf(StreamRead_so_far)) IN
    /\ turn_pc \in {"stream", "raised", "deliver"} => delivered = acks
    /\ turn_pc = "done" =>
          delivered = acks \o (IF response_text = "" THEN <<>> ELSE <<response_text>>)
    /\ (turn_pc = "done" /\ chunks = ScenarioStream) =>
          /\ delivered = <<"One sec.", "Done.">>
          /\ last_response_id = "r1"
          /\ "r1" \in sent_message_ids

\* the scenario's stream: "One sec." has been delivered while the response
\* line is still unread
C11_Witness ==
    /\ chunks = ScenarioStream
    /\ turn_pc = "stream"
    /\ stream_pos < Len(chunks)
    /\ delivered = <<"One sec.">>
    /\ response_text = ""

(* ------------------------------------------------------------------ *)
(* Properties of the units under failure and contention                *)
(* ------------------------------------------------------------------ *)

\* the step takes the exception of row i of unit u to the unit boundary
Caught(u, i) ==
    /\ u \in UnitIds
    /\ i \in RowIdx(u)
    /\ units[u].rpc[i] = "raised"
    /\ units'[u].rpc[i] # "raised"

\* C12: an exception raised while routing row k of a unit is caught at the unit
\* boundary: the row counts as completed, the unit keeps running with its
\* sender's lock and its later rows untouched, so that row k+1 is the next to be
\* routed; no other unit changes and the detector and the callback are where
\* they were; no unit ever ends otherwise than by finishing all of its rows
C12_RowFailureIsolated ==
    /\ [][\A u \in UnitIds : \A i \in RowIdx(u) :
            Caught(u, i) =>
               /\ units'[u].rpc[i] = "done"
               /\ units'[u].pc = "running"
               /\ lockHolder'[units[u].sender] = u
               /\ \A j \in RowIdx(u) : j # i => units'[u].rpc[j] = units[u].rpc[j]
               /\ \A j \in RowIdx(u) : j > i => units'[u].rpc[j] = "new"
               /\ \A v \in UnitIds : v # u => units'[v] = units[v]
               /\ UNCHANGED << detector_vars, callback_vars, life_vars, startQ >>]_vars
    /\ [](\A u \in UnitIds :
            /\ units[u].pc \in {"created", "lock_wait", "running", "done"}
            /\ units[u].pc = "done" => \A i \in RowIdx(u) : units[u].rpc[i] = "done")

\* the routing of the first row of a unit has raised, a later row of the unit
\* is still to be routed, and a unit of another sender is routing a row
C12_Witness ==
    \E u \in UnitIds : \E v \in UnitIds :
        /\ units[u].sender # units[v].sender
        /\ Len(units[u].rows) >= 2
        /\ units[u].rpc[1] = "raised"
        /\ units[u].rpc[2] = "new"
        /\ units[v].pc = "running"
        /\ \E j \in RowIdx(v) : units[v].rpc[j] \notin {"new", "done"}

\* C13: a unit waiting for a permit of the global semaphore is running and
\* holds its sender's lock all along: no other unit of the sender is running,
\* the later units of the sender have started no row and the earlier ones have
\* finished theirs, and in the unit itself the rows after the waiting one are
\* untouched
C13_WaitKeepsSenderLock ==
    \A p \in UnitRows :
        PcAt(p) = "sem_wait" =>
            /\ units[p[1]].pc = "running"
            /\ lockHolder[units[p[1]].sender] = p[1]
            /\ \A j \in RowIdx(p[1]) : j > p[2] => units[p[1]].rpc[j] = "new"
            /\ \A v \in UnitIds :
                  (v # p[1] /\ units[v].sender = units[p[1]].sender) =>
                      /\ units[v].pc # "running"
                      /\ v > p[1] => \A j \in RowIdx(v) : units[v].rpc[j] = "new"
                      /\ v < p[1] => \A j \in RowIdx(v) : units[v].rpc[j] = "done"

\* the permit is held by a call of another sender; a unit waits for it and a
\* later unit of the same sender waits for the sender's lock
C13_Witness ==
    \E p \in UnitRows : \E v \in UnitIds : \E q \in UnitRows :
        /\ PcAt(p) = "sem_wait"
        /\ v > p[1]
        /\ units[v].sender = units[p[1]].sender
        /\ units[v].pc = "lock_wait"
        /\ PcAt(q) = "agent_call"
        /\ units[q[1]].sender # units[p[1]].sender

(* ------------------------------------------------------------------ *)
(* Process start: BridgeState.load and the bootstrap of _run           *)
(* ------------------------------------------------------------------ *)

\* what load may find at the path of the state document: no file, a document
\* written by save, a text that is not JSON, bytes that are not a text, or JSON
\* of another shape than the document (a list, null, a number for a list)
DocKinds == {"absent", "ok", "bad_json", "bad_bytes", "bad_shape"}

\* BridgeState.load: "loaded", "fresh" (no file, or json.loads raised
\* JSONDecodeError, caught at line 56, as it does on the beginning of a
\* document: "partial"), or "raised": read_text raises
\* UnicodeDecodeError, data.get AttributeError, set(...) TypeError, and none of
\* them is caught
load(kind) ==
    CASE kind = "ok" -> "loaded"
      [] kind \in {"absent", "bad_json", "partial"} -> "fresh"
      [] OTHER -> "raised"

\* a set of identifiers as a sequence, ascending
RECURSIVE SeqOf(_)
SeqOf(S) ==
    IF S = {} THEN <<>>
    ELSE LET m == CHOOSE x \in S : \A y \in S : x <= y
         IN  <<m>> \o SeqOf(S \ {m})

\* the detector and the callback of a process that is not running
Halted ==
    /\ fs_queued' = FALSE
    /\ pending_handle' = FALSE
    /\ change_event' = FALSE
    /\ fetching' = FALSE
    /\ cb_pc' = "idle"
    /\ messages' = <<>>
    /\ to_process' = <<>>

\* _run, lines 46-82: the state is loaded; with a cursor of 0 the cursor is set
\* to the store's maximum and saved; the watcher starts and remembers the
\* store's modification time.  An exception of load leaves _run
Start ==
    /\ proc_pc = "down"
    /\ IF load(disk_kind) = "raised"
       THEN /\ proc_pc' = "crashed"
            /\ UNCHANGED << current_max, disk_kind, state_vars, detector_vars,
                            callback_vars >>
       ELSE LET st == IF load(disk_kind) = "loaded" THEN disk ELSE EmptyDoc IN
            /\ proc_pc' = "up"
            /\ processed_guids' = st.processed_guids
            /\ insert_order' = SeqOf(st.processed_guids)
            /\ IF st.last_rowid = 0
               THEN /\ last_rowid' = MaxRowid
                    /\ current_max' = MaxRowid
                    /\ disk' \in SaveChoices(MaxRowid, st.processed_guids)
                    /\ disk_kind' = "ok"
               ELSE /\ last_rowid' = st.last_rowid
                    /\ UNCHANGED << current_max, disk, disk_kind >>
            /\ Halted
            /\ w_pc' = "wait"
            /\ last_mtime' = mtime
            /\ UNCHANGED callback_overlap
    /\ UNCHANGED << store, mtime, unit_vars, sent_vars, turn_vars, delivery_vars, decode_vars, extra_vars, sd_pc,
                    watcher_error, tmp_file, save_pc >>

\* the process is killed, at any step of what it is doing; the files stay as
\* they are and the tasks created so far stay on record
Stop ==
    /\ proc_pc = "up"
    /\ proc_pc' = "down"
    /\ Halted
    /\ w_pc' = "off"
    /\ save_pc' = "idle"
    /\ before_stop' = {RowAt(p).rowid : p \in UnitRows}
    /\ UNCHANGED << last_mtime, callback_overlap, current_max >>
    /\ UNCHANGED << store, mtime, state_vars, unit_vars, sent_vars, turn_vars, delivery_vars,
                    decode_vars, onboard_vars, debounce_vars, stuck, sd_pc, watcher_error,
                    disk_kind, tmp_file >>

\* the process is not started yet; the store is filled while it is down
InitBoot ==
    /\ store = <<>>
    /\ mtime = 0
    /\ last_mtime = 0
    /\ last_rowid = 0
    /\ processed_guids = {}
    /\ insert_order = <<>>
    /\ disk = EmptyDoc
    /\ sent_message_ids = {}
    /\ fs_queued = FALSE
    /\ pending_handle = FALSE
    /\ change_event = FALSE
    /\ w_pc = "off"
    /\ callback_overlap = FALSE
    /\ fetching = FALSE
    /\ cb_pc = "idle"
    /\ messages = <<>>
    /\ to_process = <<>>
    /\ units = <<>>
    /\ startQ = <<>>
    /\ lockHolder = [s \in Senders |-> 0]
    /\ lockWaiters = [s \in Senders |-> <<>>]
    /\ semValue = MAX_CONCURRENT_AGENTS
    /\ active_tasks = {}
    /\ mutations = {}
    /\ TurnInit
    /\ DeliveryInit
    /\ DecodeIdle
    /\ ExtraIdle
    /\ proc_pc = "down"
    /\ current_max = 0
    /\ sd_pc = "running"
    /\ watcher_error = "none"
    /\ disk_kind \in DocKinds
    /\ tmp_file = [kind |-> "absent", doc |-> EmptyDoc]
    /\ save_pc = "idle"

\* starts and kills of the process around the detector and the callback
NextBoot ==
    \/ \E replay \in BOOLEAN : WriterAppend(FALSE, replay)
    \/ Start
    \/ Stop
    \/ WatcherPoll
    \/ ClassifyDuplicate
    \/ ClassifyJunk
    \/ ClassifyProcess
    \/ Dispatch

SpecBoot == InitBoot /\ [][NextBoot]_vars

\* the step is a start of the process on a state document that is absent or
\* cannot be decoded
ColdStart == proc_pc = "down" /\ proc_pc' # "down" /\ disk_kind \notin {"ok"}

\* C14: a start on an absent or undecodable state document gives a running
\* process with empty state, the cursor at the store's maximum of that moment
\* and that cursor saved; and no row at or below the maximum taken by a
\* bootstrap is ever handed to a unit
C14_ColdStartBootstrap ==
    /\ [][ColdStart =>
            /\ proc_pc' = "up"
            /\ processed_guids' = {}
            /\ last_rowid' = MaxRowid
            /\ disk' = [last_rowid |-> MaxRowid, processed_guids |-> {}]
            /\ disk_kind' = "ok"]_vars
    /\ [](\A p \in UnitRows : RowAt(p).rowid > current_max)

\* C14, for the documents load handles: no file, or a text that is not JSON
C14_HandledColdStart ==
    /\ [][(ColdStart /\ disk_kind \in {"absent", "bad_json"}) =>
            /\ proc_pc' = "up"
            /\ processed_guids' = {}
            /\ last_rowid' = MaxRowid
            /\ disk' = [last_rowid |-> MaxRowid, processed_guids |-> {}]
            /\ disk_kind' = "ok"]_vars
    /\ [](\A p \in UnitRows : RowAt(p).rowid > current_max)

\* after a cold start over a store with rows, a later row was dispatched
C14_HandledWitness ==
    /\ current_max > 0
    /\ proc_pc = "up"
    /\ \E p \in UnitRows : RowAt(p).rowid > current_max

(* ------------------------------------------------------------------ *)
(* BridgeState.save, step by step                                      *)
(* ------------------------------------------------------------------ *)

WriteTarget_document == "document"

\* line 32-33: the text is written to the file with the suffix .tmp
WriteTarget == "tmp"

\* a mutation of the state (or none: the saves of _run) and the beginning of
\* save(): the document to write is computed (lines 27-31) and write_text has
\* opened its file and written a part of the text (line 33)
SaveOpen ==
    /\ proc_pc = "up"
    /\ save_pc = "idle"
    /\ \E adv \in BOOLEAN :
          LET rowid == IF adv THEN last_rowid + 1 ELSE last_rowid
              guids == IF adv THEN processed_guids \cup {rowid} ELSE processed_guids
          IN  /\ rowid <= MaxRows
              /\ last_rowid' = rowid
              /\ processed_guids' = guids
              /\ insert_order' = IF adv THEN Append(insert_order, rowid) ELSE insert_order
              /\ mutations' = IF adv
                              THEN Mutated({"last_rowid", "processed_guids"}, StateLocked)
                              ELSE mutations
              /\ \E doc \in SaveChoices(rowid, guids) :
                    IF WriteTarget = "tmp"
                    THEN /\ tmp_file' = [kind |-> "partial", doc |-> doc]
                         /\ UNCHANGED << disk, disk_kind >>
                    ELSE /\ disk' = doc
                         /\ disk_kind' = "partial"
                         /\ UNCHANGED tmp_file
    /\ save_pc' = "writing"
    /\ UNCHANGED << store, mtime, detector_vars, callback_vars, unit_vars,
                    sent_message_ids, turn_vars, delivery_vars, decode_vars, extra_vars, life_vars >>

\* line 33: write_text has written the whole text and closed the file
SaveWrite ==
    /\ proc_pc = "up"
    /\ save_pc = "writing"
    /\ IF WriteTarget = "tmp"
       THEN /\ tmp_file' = [tmp_file EXCEPT !.kind = "complete"]
            /\ UNCHANGED << disk, disk_kind >>
       ELSE /\ disk_kind' = "ok"
            /\ UNCHANGED << disk, tmp_file >>
    /\ save_pc' = "written"
    /\ UNCHANGED << last_rowid, processed_guids, insert_order >>
    /\ UNCHANGED << store, mtime, detector_vars, callback_vars, unit_vars,
                    sent_vars, turn_vars, delivery_vars, decode_vars, extra_vars, life_vars >>

\* line 34: tmp.replace(self._state_path), one rename
SaveReplace ==
    /\ proc_pc = "up"
    /\ save_pc = "written"
    /\ IF WriteTarget = "tmp"
       THEN /\ disk' = tmp_file.doc
            /\ disk_kind' = "ok"
            /\ tmp_file' = [tmp_file EXCEPT !.kind = "absent"]
       ELSE UNCHANGED << disk, disk_kind, tmp_file >>
    /\ save_pc' = "idle"
    /\ UNCHANGED << last_rowid, processed_guids, insert_order >>
    /\ UNCHANGED << store, mtime, detector_vars, callback_vars, unit_vars,
                    sent_vars, turn_vars, delivery_vars, decode_vars, extra_vars, life_vars >>

NextSave ==
    \/ SaveOpen
    \/ SaveWrite
    \/ SaveReplace
    \/ Stop
    \/ Start

SpecSave == Init /\ [][NextSave]_vars

\* C15: whatever the step at which the process is killed, the state document
\* is a completely written one: it changes only by the rename of a completely
\* written temporary file that holds the state of that save, and a load after
\* a kill reads the document of the last completed save
C15_AtomicPersistence ==
    /\ [](disk_kind = "ok")
    /\ [][(disk' # disk) =>
            /\ save_pc = "written"
            /\ tmp_file.kind = "complete"
            /\ disk' = tmp_file.doc
            /\ disk' \in SaveChoices(last_rowid, processed_guids)]_vars
    /\ [][(proc_pc = "down" /\ proc_pc' # "down") =>
            /\ proc_pc' = "up"
            /\ last_rowid' = disk.last_rowid
            /\ processed_guids' = disk.processed_guids]_vars

\* the process was killed while a later save was writing its text; it has been
\* started again and holds the state of the last completed save
C15_Witness ==
    /\ proc_pc = "up"
    /\ save_pc = "idle"
    /\ tmp_file.kind = "partial"
    /\ tmp_file.doc.last_rowid > disk.last_rowid
    /\ disk.last_rowid > 0
    /\ last_rowid = disk.last_rowid

(* ------------------------------------------------------------------ *)
(* Shutdown: the cleanup of _run and MessageProcessor.close            *)
(* ------------------------------------------------------------------ *)

\* task.cancel() on unit u: a finished task is left alone; any other gets
\* CancelledError at the await it is suspended in (except Exception does not
\* catch it) and runs no further statement of its body
Cancelled(unit) ==
    IF unit.pc = "done" THEN unit
    ELSE [unit EXCEPT !.pc = "cancelled",
                      !.rpc = [i \in 1..Len(unit.rows) |->
                                  IF unit.rpc[i] \in {"new", "done"}
                                  THEN unit.rpc[i] ELSE "cancelled"]]

\* every task is cancelled; the locks and the permits of the cancelled tasks
\* are released as their async with blocks are left
CancelUnits ==
    /\ units' = [u \in UnitIds |-> Cancelled(units[u])]
    /\ startQ' = <<>>
    /\ lockHolder' = [s \in Senders |-> 0]
    /\ lockWaiters' = [s \in Senders |-> <<>>]
    /\ semValue' = MAX_CONCURRENT_AGENTS
    /\ UNCHANGED active_tasks

\* __main__.py lines 110-123 and processor.py lines 715-718: asyncio.wait has
\* returned; state.save(); close() cancels the tasks of _active_tasks and
\* awaits them.  The watcher task is not cancelled here
CloseCancel ==
    /\ LoopFree
    /\ proc_pc = "up"
    /\ sd_pc = "running"
    /\ sd_pc' = "closing"
    /\ disk' \in SaveChoices(last_rowid, processed_guids)
    /\ CancelUnits
    /\ UNCHANGED << last_rowid, processed_guids, insert_order >>
    /\ UNCHANGED << proc_pc, current_max, watcher_error >>
    /\ UNCHANGED << store, mtime, detector_vars, callback_vars, sent_vars,
                    turn_vars, delivery_vars, decode_vars, extra_vars, file_vars >>

\* processor.py lines 718-719: gather and aclose have returned, close() returns
CloseReturn ==
    /\ LoopFree
    /\ sd_pc = "closing"
    /\ sd_pc' = "closed"
    /\ UNCHANGED << proc_pc, current_max, watcher_error >>
    /\ UNCHANGED << store, mtime, detector_vars, callback_vars, state_vars,
                    unit_vars, sent_vars, turn_vars, delivery_vars, decode_vars, extra_vars, file_vars >>

\* __main__.py lines 124-134 and asyncio.run: the other closes are awaited,
\* the pending tasks (the watcher among them) are cancelled, _run returns and
\* asyncio.run cancels the tasks that are left
Exit ==
    /\ LoopFree
    /\ sd_pc = "closed"
    /\ sd_pc' = "exited"
    /\ proc_pc' = "down"
    /\ w_pc' = "off"
    /\ fs_queued' = FALSE
    /\ pending_handle' = FALSE
    /\ change_event' = FALSE
    /\ CancelUnits
    /\ UNCHANGED << last_mtime, callback_overlap, current_max, watcher_error >>
    /\ UNCHANGED << store, mtime, callback_vars, state_vars, sent_vars, turn_vars, delivery_vars, decode_vars, extra_vars,
                    file_vars >>

\* the callback and the units, fed by the poll fallback, and the cleanup
NextShutdown ==
    \/ WriterAppend(FALSE, FALSE)
    \/ WatcherPoll
    \/ ClassifyJunk
    \/ ClassifyProcess
    \/ Dispatch
    \/ UnitStep
    \/ CloseCancel
    \/ CloseReturn
    \/ Exit

SpecShutdown == Init /\ [][NextShutdown]_vars

\* a unit that is neither finished nor cancelled
Alive(u) == units[u].pc \notin {"done", "cancelled"}

\* C16: once close() has returned, every unit ever dispatched is finished or
\* cancelled, and no unit takes a step (a lookup, a call, a delivery) from
\* then on
C16_ShutdownCancelsAll ==
    /\ [](sd_pc \in {"closed", "exited"} => \A u \in UnitIds : ~Alive(u))
    /\ [][(sd_pc \in {"closed", "exited"}) => UNCHANGED units]_vars

(* ------------------------------------------------------------------ *)
(* Failures of the store read and of the state write                   *)
(* ------------------------------------------------------------------ *)

\* start_watcher after an exception left the callback: await callback() (line
\* 112) is in no try, so the exception leaves the loop through finally (lines
\* 116-119) and ends the watcher task
WatcherFails(error) ==
    /\ w_pc' = "failed"
    /\ watcher_error' = error

\* the wait timed out, the store's mtime moved, and fetch_new_messages raised
\* (sqlite3.connect or a query failed): on_chat_db_changed has try/finally and
\* no except, so _fetching is reset and the exception goes to the caller
FetchFails ==
    /\ LoopWaiting
    /\ ~change_event
    /\ mtime > last_mtime
    /\ ~fetching
    /\ last_mtime' = mtime
    /\ callback_overlap' = (callback_overlap \/ cb_pc # "idle")
    /\ WatcherFails("fetch")
    /\ UNCHANGED << fs_queued, pending_handle, change_event >>
    /\ UNCHANGED << proc_pc, current_max, sd_pc >>
    /\ UNCHANGED << store, mtime, callback_vars, state_vars, unit_vars, sent_vars,
                    turn_vars, delivery_vars, decode_vars, extra_vars, file_vars >>

\* lines 176-187 with save() raising (OSError of mkdir, write_text or replace):
\* the cursor and the dedup set have the new values, the document is not
\* replaced; the exception leaves the lock, the loop over messages and the
\* callback, whose locals (messages, to_process) are dropped
SaveFails ==
    /\ cb_pc = "classify" /\ messages # <<>>
    /\ ~IsDuplicate(Head(messages))
    /\ last_rowid' = Head(messages).rowid
    /\ processed_guids' = processed_guids \cup {Head(messages).guid}
    /\ insert_order' = Append(insert_order, Head(messages).guid)
    /\ mutations' = Mutated({"last_rowid", "processed_guids"}, StateLocked)
    /\ fetching' = FALSE
    /\ cb_pc' = "idle"
    /\ messages' = <<>>
    /\ to_process' = <<>>
    /\ WatcherFails("save")
    /\ UNCHANGED << fs_queued, pending_handle, change_event, last_mtime,
                    callback_overlap >>
    /\ UNCHANGED << proc_pc, current_max, sd_pc >>
    /\ UNCHANGED << store, mtime, disk, unit_vars, sent_message_ids, turn_vars, delivery_vars, decode_vars, extra_vars,
                    file_vars >>

\* the detector and the callback with failing collaborators, and the cleanup
\* _run goes to when the watcher task has ended
NextFaults ==
    \/ WriterAppend(FALSE, FALSE)
    \/ WatcherPoll
    \/ FetchFails
    \/ ClassifyJunk
    \/ ClassifyProcess
    \/ SaveFails
    \/ Dispatch
    \/ CloseCancel
    \/ CloseReturn
    \/ Exit

SpecFaults == Init /\ [][NextFaults]_vars

(* ------------------------------------------------------------------ *)
(* Properties under failures of the collaborators                      *)
(* ------------------------------------------------------------------ *)

\* the step is the failure of the outbound call of row i of unit u: a status
\* other than 200, a body that cannot be parsed, a timeout
CallFailed(u, i) ==
    /\ u \in UnitIds
    /\ i \in RowIdx(u)
    /\ units[u].rpc[i] \in {"agent_call", "onboard_call"}
    /\ units'[u].rpc[i] \in {"raised", "fallback"}

\* C17: when the outbound call of a row fails, on the onboarding route and on
\* the active-user route alike, the next thing done for the row is to hand the
\* fallback reply to send_imessage, and the unit goes on with its lock
C17_FailureGivesFallback ==
    [][\A u \in UnitIds : \A i \in RowIdx(u) :
          CallFailed(u, i) =>
             /\ units'[u].rpc[i] = "fallback"
             /\ units'[u].pc = "running"
             /\ lockHolder'[units[u].sender] = u]_vars

\* the step is a detector invocation whose store read failed
StoreReadFailed == watcher_error = "none" /\ watcher_error' = "fetch"

\* C18: a detector invocation whose store read fails yields no row, leaves the
\* cursor, the dedup set and the state document as they were and creates no
\* unit, and the loop of the change detector is back in its wait, so that a
\* later change of the store invokes the callback again
C18_StoreReadRecoverable ==
    [][StoreReadFailed =>
          /\ UNCHANGED << state_vars, unit_vars >>
          /\ messages' = <<>> /\ to_process' = <<>>
          /\ ~fetching'
          /\ w_pc' = "wait"]_vars

\* the step is the retention of a to-process row whose save() failed
StateWriteFailed ==
    /\ watcher_error = "none" /\ watcher_error' = "save"
    /\ ~is_junk_message(Head(messages).text)

\* the rows that were retained or handed to a unit
Kept == {to_process[k] : k \in 1..Len(to_process)} \cup {RowAt(p) : p \in UnitRows}

\* C19: when save() fails while a to-process row is advanced, the cursor and the
\* dedup set in memory have the new values, the row is still on its way to its
\* sender's unit, the loop of the change detector is back in its wait, and a
\* later write of the document writes the state then in memory
C19_StateWriteNonFatal ==
    /\ [][StateWriteFailed =>
            /\ last_rowid' = Head(messages).rowid
            /\ Head(messages).guid \in processed_guids'
            /\ Head(messages) \in Kept'
            /\ w_pc' = "wait"]_vars
    /\ [][(disk' # disk) => disk' \in SaveChoices(last_rowid', processed_guids')]_vars

(* ------------------------------------------------------------------ *)
(* Properties of the state lock                                        *)
(* ------------------------------------------------------------------ *)

\* the fields of BridgeState mutated so far
MutatedFields == {m.field : m \in mutations}

ReplyFrame ==
    /\ UNCHANGED << store, mtime, detector_vars, callback_vars, last_rowid,
                    processed_guids, insert_order, unit_vars, turn_vars, life_vars,
                    file_vars, send_vars, decode_vars, extra_vars >>

\* processor.py lines 498-509: the agent call returned the text of reply r
\* with its response_id; the identifier is added to sent_message_ids and
\* send_imessage is called
AgentReplies(r) ==
    /\ proc_turn[r] = "none"
    /\ proc_turn' = [proc_turn EXCEPT ![r] = "sending"]
    /\ sent_message_ids' = sent_message_ids \cup {r}
    /\ mutations' = Mutated({"sent_message_ids"}, FALSE)
    /\ UNCHANGED << listener, confirmed, disk >>
    /\ ReplyFrame

\* processor.py lines 509-516: send_imessage returned; its value is logged
ProcSendReturn(r) ==
    /\ proc_turn[r] = "sending"
    /\ \E sent \in BOOLEAN :
          /\ proc_turn' = [proc_turn EXCEPT ![r] = IF sent THEN "sent" ELSE "failed"]
          /\ confirmed' = [confirmed EXCEPT ![r] = IF sent THEN @ + 1 ELSE @]
    /\ UNCHANGED << listener, sent_vars, disk >>
    /\ ReplyFrame

\* listener.py lines 76-110: the INSERT of reply r is notified; a reply whose
\* identifier is in sent_message_ids is dropped, else a task is created
OnInsert(r) ==
    /\ listener[r] = "none"
    /\ listener' = [listener EXCEPT ![r] =
                       IF r \in sent_message_ids THEN "skipped" ELSE "sleep"]
    /\ UNCHANGED << proc_turn, confirmed, sent_vars, disk >>
    /\ ReplyFrame

\* listener.py lines 121-131: the sleep of _send_and_track is over; the set is
\* looked at again, then send_imessage is called
ListenerWake(r) ==
    /\ listener[r] = "sleep"
    /\ listener' = [listener EXCEPT ![r] =
                       IF r \in sent_message_ids THEN "skipped" ELSE "sending"]
    /\ UNCHANGED << proc_turn, confirmed, sent_vars, disk >>
    /\ ReplyFrame

\* listener.py lines 131-136: send_imessage returned; after True the
\* identifier is added and the state is saved
ListenerSendReturn(r) ==
    /\ listener[r] = "sending"
    /\ \E sent \in BOOLEAN :
          IF sent
          THEN /\ listener' = [listener EXCEPT ![r] = "sent"]
               /\ confirmed' = [confirmed EXCEPT ![r] = @ + 1]
               /\ sent_message_ids' = sent_message_ids \cup {r}
               /\ mutations' = Mutated({"sent_message_ids"}, FALSE)
               /\ disk' \in SaveChoices(last_rowid, processed_guids)
          ELSE /\ listener' = [listener EXCEPT ![r] = "failed"]
               /\ UNCHANGED << confirmed, sent_vars, disk >>
    /\ UNCHANGED proc_turn
    /\ ReplyFrame

NextReplies ==
    \/ \E r \in ReplyIds : AgentReplies(r)
    \/ \E r \in ReplyIds : ProcSendReturn(r)
    \/ \E r \in ReplyIds : OnInsert(r)
    \/ \E r \in ReplyIds : ListenerWake(r)
    \/ \E r \in ReplyIds : ListenerSendReturn(r)

SpecReplies == Init /\ [][NextReplies]_vars

(* ------------------------------------------------------------------ *)
(* Properties of the sent-reply set                                    *)
(* ------------------------------------------------------------------ *)

\* C21: a reply identifier is in the sent-reply set only if a send_imessage
\* call for that reply has returned True
C21_SentOnlyIfDelivered ==
    \A r \in ReplyIds : r \in sent_message_ids => confirmed[r] >= 1

\* C22: whatever the interleaving of the processor's path and the listener's
\* path, a reply is delivered at most once
C22_NoDoubleDelivery == \A r \in ReplyIds : confirmed[r] <= 1

(* ------------------------------------------------------------------ *)
(* The read of the message store                                       *)
(* ------------------------------------------------------------------ *)

\* the step on which on_chat_db_changed calls fetch_new_messages
FetchStep == cb_pc = "idle" /\ cb_pc' = "classify"

\* C23: the rows a fetch returns all lie above the cursor it was given, in
\* strictly ascending position, and the fetch leaves the store as it was
C23_FetchAboveCursorAscending ==
    [][FetchStep =>
         /\ \A i \in 1..Len(messages') : messages'[i].rowid > last_rowid
         /\ \A i, j \in 1..Len(messages') :
               i < j => messages'[i].rowid < messages'[j].rowid
         /\ store' = store
         /\ mtime' = mtime]_vars

\* a fetch returned two rows or more and left a row of the store at or below
\* the cursor out
C23_Witness ==
    /\ cb_pc = "classify"
    /\ Len(messages) >= 2
    /\ to_process = <<>>
    /\ \E k \in 1..Len(store) : store[k].rowid <= last_rowid /\ FetchKeeps(store[k].text)

(* ------------------------------------------------------------------ *)
(* extract_text_from_attributed_body: bytes are numbers 0..255, text   *)
(* is a sequence of code points                                        *)
(* ------------------------------------------------------------------ *)

\* b"NSString"
MarkerNSString == << 78, 83, 83, 116, 114, 105, 110, 103 >>

\* b"NSMutableString"
MarkerNSMutableString ==
    << 78, 83, 77, 117, 116, 97, 98, 108, 101, 83, 116, 114, 105, 110, 103 >>

\* the tuple of the for loop at line 65, in its order
Markers == << MarkerNSString, MarkerNSMutableString >>

Least(S) == CHOOSE x \in S : \A y \in S : x <= y

\* bytes.find: the first index (from 0) at which m occurs in b, -1 if none
Find(b, m) ==
    LET hits == {k \in 0..(Len(b) - Len(m)) : SubSeq(b, k + 1, k + Len(m)) = m}
    IN  IF hits = {} THEN -1 ELSE Least(hits)

\* str.encode("utf-8") for code points below 0x800
RECURSIVE EncodeUtf8(_)
EncodeUtf8(t) ==
    IF t = <<>> THEN <<>>
    ELSE LET c == Head(t) IN
         IF c < 128
         THEN << c >> \o EncodeUtf8(Tail(t))
         ELSE << 192 + (c \div 64), 128 + (c % 64) >> \o EncodeUtf8(Tail(t))

\* bytes.decode("utf-8", errors="replace") for sequences of one and two bytes:
\* a byte that starts no such sequence becomes U+FFFD
RECURSIVE DecodeUtf8(_)
DecodeUtf8(b) ==
    IF b = <<>> THEN <<>>
    ELSE LET v == Head(b) IN
         IF v < 128
         THEN << v >> \o DecodeUtf8(Tail(b))
         ELSE IF v \in 194..223 /\ Len(b) >= 2 /\ b[2] \in 128..191
         THEN << (v - 192) * 64 + (b[2] - 128) >> \o DecodeUtf8(Tail(Tail(b)))
         ELSE << 65533 >> \o DecodeUtf8(Tail(b))

\* str.isspace for the code points below 0x800
IsSpaceCode(c) == c \in (9..13) \cup (28..32) \cup {133, 160}

RECURSIVE LStripCodes(_)
LStripCodes(t) ==
    IF t # <<>> /\ IsSpaceCode(Head(t)) THEN LStripCodes(Tail(t)) ELSE t

RECURSIVE RStripCodes(_)
RStripCodes(t) ==
    IF t # <<>> /\ IsSpaceCode(t[Len(t)])
    THEN RStripCodes(SubSeq(t, 1, Len(t) - 1))
    ELSE t

\* str.strip()
StripCodes(t) == RStripCodes(LStripCodes(t))

\* lines 78-91: text_bytes of the inner loop that starts at index j (from 0)
RECURSIVE TextBytes(_, _)
TextBytes(b, j) ==
    IF j >= Len(b) THEN <<>>
    ELSE LET v == b[j + 1] IN
         IF v = 0 THEN <<>>
         ELSE IF v >= 32 \/ v \in {10, 13, 9} THEN << v >> \o TextBytes(b, j + 1)
         ELSE IF v >= 128 THEN << v >> \o TextBytes(b, j + 1)
         ELSE <<>>

\* line 73: search_from
ScanFrom(idx, marker) == idx + Len(marker)

\* lines 59-94
extract_text_from_attributed_body(b) ==
    IF b = <<>> THEN NoText
    ELSE LET found == {m \in 1..Len(Markers) : Find(b, Markers[m]) # -1} IN
         IF found = {} THEN NoText
         ELSE LET marker == Markers[Least(found)]
                  idx == Find(b, marker)
                  search_from == ScanFrom(idx, marker)
                  last == (IF search_from + 120 < Len(b)
                           THEN search_from + 120 ELSE Len(b)) - 1
                  starts == {i \in search_from..last :
                               /\ b[i + 1] >= 32 /\ b[i + 1] < 127
                               /\ Len(TextBytes(b, i)) > 1}
              IN  IF starts = {} THEN NoText
                  ELSE [some |-> TRUE,
                        text |-> StripCodes(DecodeUtf8(TextBytes(b, Least(starts))))]

\* the longest payload the blobs are built from, in code points
MaxPayload == 3

\* the code points payloads are made of: space, h, i and e with an acute
PayloadChars == {32, 104, 105, 233}

\* printable text of more than one character; one payload spells a class name
Payloads ==
    UNION {[1..n -> PayloadChars] : n \in 2..MaxPayload}
        \cup {DecodeUtf8(MarkerNSString) \o << 104, 105 >>}

\* the bytes at which the inner loop stops: 0x00 (line 81), a control byte (line 91)
Terminators == {0, 6}

\* a blob made of a marker, a payload and a terminator
Marked ==
    {[kind |-> "marked", marker |-> Markers[m], payload |-> p, terminator |-> z] :
        m \in 1..Len(Markers), p \in Payloads, z \in Terminators}

\* a blob made of a payload and a terminator, without a marker
Unmarked ==
    {[kind |-> "unmarked", marker |-> <<>>, payload |-> p, terminator |-> z] :
        p \in {<<>>} \cup UNION {[1..n -> PayloadChars] : n \in 2..MaxPayload},
        z \in Terminators}

BlobOf(bl) ==
    IF bl.kind = "unmarked" /\ bl.payload = <<>>
    THEN <<>>
    ELSE bl.marker \o EncodeUtf8(bl.payload) \o << bl.terminator >>

InitDecode ==
    /\ store = <<>>
    /\ mtime = 0
    /\ last_mtime = 0
    /\ last_rowid = 0
    /\ processed_guids = {}
    /\ insert_order = <<>>
    /\ disk = EmptyDoc
    /\ sent_message_ids = {}
    /\ CoreInit
    /\ TurnInit
    /\ LifeInit
    /\ FileInit
    /\ DeliveryInit
    /\ built \in Marked \cup Unmarked
    /\ blob = BlobOf(built)
    /\ extracted = NoText
    /\ dec_pc = "ready"
    /\ ExtraIdle

\* fetch_new_messages line 179: the call
Extract ==
    /\ dec_pc = "ready"
    /\ extracted' = extract_text_from_attributed_body(blob)
    /\ dec_pc' = "done"
    /\ UNCHANGED << blob, built >>
    /\ UNCHANGED << store, mtime, detector_vars, callback_vars, state_vars, unit_vars,
                    sent_vars, turn_vars, life_vars, file_vars, delivery_vars, extra_vars >>

NextDecode == Extract

SpecDecode == InitDecode /\ [][NextDecode]_vars

\* C24: a blob made of a marker, a payload and a terminator decodes to the
\* payload, and a blob without a marker decodes to no text
C24_DecodeRoundTrip ==
    dec_pc = "done" =>
        /\ built.kind = "marked" => extracted = [some |-> TRUE, text |-> built.payload]
        /\ built.kind = "unmarked" => extracted = NoText

\* the part of C24 that the code has: without a marker there is no text
C24_NoMarkerNoText ==
    (dec_pc = "done" /\ built.kind = "unmarked") => extracted = NoText

\* the payloads that do come back: those that start with a printable ASCII
\* character that is no space, end with no space and spell no class name
C24_PlainRoundTrip ==
    (/\ dec_pc = "done"
     /\ built.kind = "marked"
     /\ Head(built.payload) \in 33..126
     /\ ~IsSpaceCode(built.payload[Len(built.payload)])
     /\ Find(EncodeUtf8(built.payload), MarkerNSString) = -1)
        => extracted = [some |-> TRUE, text |-> built.payload]

\* a marked blob with an accented letter inside was decoded to its payload
C24_PlainWitness ==
    /\ dec_pc = "done"
    /\ built.kind = "marked"
    /\ built.payload = << 104, 233, 105 >>
    /\ extracted.some

(* ------------------------------------------------------------------ *)
(* send_imessage: chunks, osascript runs, retries                      *)
(* ------------------------------------------------------------------ *)

\* imessage.py line 13
MAX_RETRIES == 3

\* the most chunks _split_conversational gives for the texts looked at
MaxChunks == 3

\* what one osascript run ends with: return code 0, another return code, or
\* the kill after OSASCRIPT_TIMEOUT
Outcomes == {"ok", "failed", "timeout"}

\* a call with a text of n chunks is about to be made; 0 stands for a text
\* that is empty after strip_markdown
InitSend ==
    /\ store = <<>>
    /\ mtime = 0
    /\ last_mtime = 0
    /\ last_rowid = 0
    /\ processed_guids = {}
    /\ insert_order = <<>>
    /\ disk = EmptyDoc
    /\ sent_message_ids = {}
    /\ CoreInit
    /\ TurnInit
    /\ LifeInit
    /\ FileInit
    /\ DecodeIdle
    /\ ExtraIdle
    /\ proc_turn = [r \in ReplyIds |-> "none"]
    /\ listener = [r \in ReplyIds |-> "none"]
    /\ confirmed = [r \in ReplyIds |-> 0]
    /\ n_chunks \in 0..MaxChunks
    /\ chunk_i = 0
    /\ attempt = 0
    /\ send_log = <<>>
    /\ send_pc = "ready"

SendFrame ==
    UNCHANGED << store, mtime, detector_vars, callback_vars, state_vars, unit_vars,
                 sent_vars, turn_vars, life_vars, file_vars, reply_vars, decode_vars, extra_vars >>

\* lines 145-156: the empty text returns False, else the loop starts
SendStart ==
    /\ send_pc = "ready"
    /\ IF n_chunks = 0
       THEN /\ send_pc' = "false"
            /\ UNCHANGED << chunk_i, attempt >>
       ELSE /\ send_pc' = "running"
            /\ chunk_i' = 1
            /\ attempt' = 0
    /\ UNCHANGED << n_chunks, send_log >>
    /\ SendFrame

\* the retry loop goes on for ever
Exhausted_never(a) == FALSE

\* line 165: range(1, MAX_RETRIES + 1) has no attempt after attempt a
Exhausted(a) == a >= MAX_RETRIES

\* lines 166-174 and 186-188: the run returned code 0; the chunk is sent, the
\* loop goes to the next chunk or the call returns True (lines 207-213)
OsascriptOk ==
    /\ send_pc = "running"
    /\ send_log' = Append(send_log,
                          [chunk |-> chunk_i, attempt |-> attempt + 1, outcome |-> "ok"])
    /\ IF chunk_i = n_chunks
       THEN /\ send_pc' = "true"
            /\ attempt' = attempt + 1
            /\ UNCHANGED chunk_i
       ELSE /\ chunk_i' = chunk_i + 1
            /\ attempt' = 0
            /\ UNCHANGED send_pc
    /\ UNCHANGED n_chunks
    /\ SendFrame

\* the run did not confirm the chunk: another attempt after RETRY_DELAY, or
\* return False when the attempts are used up (lines 200-205)
RunFailed(outcome) ==
    /\ send_pc = "running"
    /\ send_log' = Append(send_log,
                          [chunk |-> chunk_i, attempt |-> attempt + 1, outcome |-> outcome])
    /\ attempt' = attempt + 1
    /\ send_pc' = IF Exhausted(attempt + 1) THEN "false" ELSE "running"
    /\ UNCHANGED << n_chunks, chunk_i >>
    /\ SendFrame

\* lines 186-198: a return code other than 0
OsascriptFails == RunFailed("failed")

\* lines 175-184: the run was killed after OSASCRIPT_TIMEOUT
OsascriptTimeout == RunFailed("timeout")

NextSend ==
    \/ SendStart
    \/ OsascriptOk
    \/ OsascriptFails
    \/ OsascriptTimeout

SpecSend == InitSend /\ [][NextSend]_vars

\* the runs made for chunk c
RunsOf(c) == {k \in 1..Len(send_log) : send_log[k].chunk = c}

\* chunk c was confirmed sent
ChunkSent(c) == \E k \in RunsOf(c) : send_log[k].outcome = "ok"

\* C25: True is returned only when every chunk was confirmed, the chunks are
\* sent in their order, no chunk gets more than MAX_RETRIES attempts, and the
\* first chunk that uses them all up ends the call with False, no later
\* chunk having been attempted
C25_AllChunksOrFalse ==
    /\ send_pc = "true" => \A c \in 1..n_chunks : ChunkSent(c)
    /\ \A k \in 1..Len(send_log) :
          /\ send_log[k].chunk \in 1..n_chunks
          /\ send_log[k].attempt <= MAX_RETRIES
          /\ k > 1 => \/ /\ send_log[k].chunk = send_log[k - 1].chunk
                         /\ send_log[k].attempt = send_log[k - 1].attempt + 1
                         /\ send_log[k - 1].outcome # "ok"
                      \/ /\ send_log[k].chunk = send_log[k - 1].chunk + 1
                         /\ send_log[k].attempt = 1
                         /\ send_log[k - 1].outcome = "ok"
    /\ \A c \in 1..n_chunks : Cardinality(RunsOf(c)) <= MAX_RETRIES
    /\ \A c \in 1..n_chunks :
          (Cardinality(RunsOf(c)) = MAX_RETRIES /\ ~ChunkSent(c))
              => /\ send_pc = "false"
                 /\ \A d \in (c + 1)..n_chunks : RunsOf(d) = {}
    /\ (send_pc = "false" /\ n_chunks > 0)
          => \E c \in 1..n_chunks :
                Cardinality(RunsOf(c)) = MAX_RETRIES /\ ~ChunkSent(c)

\* a call returned False at its second chunk, after the first was confirmed at a
\* retry, and a later chunk was left unsent
C25_Witness ==
    /\ send_pc = "false"
    /\ n_chunks = 3
    /\ chunk_i = 2
    /\ ChunkSent(1)
    /\ Cardinality(RunsOf(1)) = 2
    /\ RunsOf(3) = {}

(* ------------------------------------------------------------------ *)
(* The callback: persistence, guard, partition, tracking               *)
(* ------------------------------------------------------------------ *)

\* C26: when no fetch-and-classify step is running, the cursor of the durable
\* document is the cursor in memory
C26_EveryAdvancePersists == cb_pc = "idle" => disk.last_rowid = last_rowid

\* the guard is not looked at
Busy_never == FALSE

\* line 159: if self._fetching
Busy == fetching

\* lines 158-167: on_chat_db_changed is called by a second caller while an
\* invocation is between its fetch and its return
Reinvoke ==
    /\ cb_pc # "idle"
    /\ callback_overlap' = TRUE
    /\ IF Busy
       THEN UNCHANGED callback_vars
       ELSE /\ fetching' = TRUE
            /\ messages' = fetch_new_messages(last_rowid)
            /\ to_process' = <<>>
            /\ cb_pc' = "classify"
    /\ UNCHANGED << store, mtime, fs_queued, pending_handle, change_event, w_pc,
                    last_mtime >>
    /\ UNCHANGED << state_vars, unit_vars, sent_vars, other_vars >>

\* the callback with failing collaborators and a second caller
NextGuard ==
    \/ NextFaults
    \/ Reinvoke

SpecGuard == Init /\ [][NextGuard]_vars

\* C27: a call made while an invocation is in its section changes nothing of
\* the callback, the state or the units, and the flag is down whenever no
\* invocation is in its section, also after the fetch or a save raised
C27_GuardSkipsAndIsReleased ==
    /\ [][(cb_pc # "idle" /\ callback_overlap' # callback_overlap)
            => UNCHANGED << callback_vars, state_vars, unit_vars, sent_vars >>]_vars
    /\ [](fetching <=> cb_pc # "idle")

\* a call was made during an invocation and returned at the guard; later a
\* save raised in that invocation, and the flag is down
C27_Witness ==
    /\ callback_overlap
    /\ watcher_error = "save"
    /\ cb_pc = "idle"
    /\ ~fetching

\* the step on which on_chat_db_changed creates its tasks and returns
DispatchStep == cb_pc = "classify" /\ messages = <<>> /\ cb_pc' = "idle"

\* the units a step has created
Created == (Len(units) + 1)..Len(units')

\* C28: a dispatch creates one unit for each sender that has retained rows and
\* none for another sender; a retained row is in its sender's unit and in no
\* other place; the rows of a unit are in ascending position; a row
\* classified duplicate or junk is not retained and is in no unit
C28_PartitionBySender ==
    /\ [][DispatchStep =>
            /\ \A s \in Senders :
                  Cardinality({k \in Created : units'[k].sender = s})
                      = IF \E i \in 1..Len(to_process) : to_process[i].sender = s
                        THEN 1 ELSE 0
            /\ \A i \in 1..Len(to_process) :
                  \E k \in Created :
                      /\ units'[k].sender = to_process[i].sender
                      /\ \E j \in 1..Len(units'[k].rows) :
                            /\ units'[k].rows[j] = to_process[i]
                            /\ \A k2 \in Created :
                                  \A j2 \in 1..Len(units'[k2].rows) :
                                      units'[k2].rows[j2] = to_process[i]
                                          => (k2 = k /\ j2 = j)
            /\ \A k \in Created :
                  /\ \A j \in 1..Len(units'[k].rows) :
                        \E i \in 1..Len(to_process) : units'[k].rows[j] = to_process[i]
                  /\ \A j1, j2 \in 1..Len(units'[k].rows) :
                        j1 < j2 => units'[k].rows[j1].rowid < units'[k].rows[j2].rowid
            /\ \A k \in 1..Len(units) : units'[k] = units[k]]_vars
    /\ [][(/\ cb_pc = "classify"
           /\ messages # <<>>
           /\ \/ IsDuplicate(Head(messages))
              \/ is_junk_message(Head(messages).text))
            => to_process' = to_process]_vars
    /\ [](\A p \in UnitRows :
            /\ ~is_junk_message(RowAt(p).text)
            /\ \A k \in 1..Len(store) :
                  store[k].rowid = RowAt(p).rowid => ~IsReplay(k))

\* one invocation has made two units: the first sender's with its two rows,
\* the second sender's with the row that arrived between them
C28_Witness ==
    /\ Len(units) = 2
    /\ units[1].sender # units[2].sender
    /\ Len(units[1].rows) = 2
    /\ units[1].rows[1].rowid < units[2].rows[1].rowid
    /\ units[2].rows[1].rowid < units[1].rows[2].rowid

\* line 209: the done callback of a finished task, run by the loop:
\* self._active_tasks.discard(task)
DoneCallback(u) ==
    /\ LoopFree
    /\ u \in active_tasks
    /\ units[u].pc = "done"
    /\ active_tasks' = active_tasks \ {u}
    /\ UNCHANGED << units, startQ, lockHolder, lockWaiters, semValue >>
    /\ UNCHANGED << store, mtime, detector_vars, callback_vars, state_vars, sent_vars,
                    other_vars >>

\* the callback, the units and the done callbacks, fed by the poll fallback.
\* The outbound calls of the units are never answered: a row that has gone
\* into one stays there, and its unit does not finish
NextTrack ==
    \/ WriterAppend(FALSE, FALSE)
    \/ WatcherPoll
    \/ ClassifyJunk
    \/ ClassifyProcess
    \/ Dispatch
    \/ UnitStart
    \/ \E u \in UnitIds : UnitFinish(u)
    \/ \E u \in UnitIds : \E i \in RowIdx(u) : BeginRow(u, i)
    \/ \E u \in UnitIds : \E i \in RowIdx(u) : LookupReturn(u, i)
    \/ \E u \in UnitIds : \E i \in RowIdx(u) : DeliverReturn(u, i)
    \/ \E u \in UnitIds : DoneCallback(u)

SpecTrack == Init /\ [][NextTrack]_vars

\* C29: the dispatch returns with its units created and not started, whatever
\* the state of earlier units, and can always be taken; a unit that has not
\* finished is in the active set; only a finished unit leaves the set, and
\* the removal of a finished unit is ready to run
C29_DispatchDoesNotWait ==
    /\ [][DispatchStep =>
            /\ w_pc' = "wait"
            /\ ~fetching'
            /\ \A k \in Created : units'[k].pc = "created" /\ k \in active_tasks'
            /\ \A k \in 1..Len(units) : units'[k] = units[k]]_vars
    /\ []((cb_pc = "classify" /\ messages = <<>>) => ENABLED Dispatch)
    /\ [](\A u \in UnitIds : units[u].pc # "done" => u \in active_tasks)
    /\ [][\A u \in active_tasks : u \notin active_tasks' => units[u].pc = "done"]_vars
    /\ [](\A u \in active_tasks :
            (units[u].pc = "done" /\ LoopFree) => ENABLED DoneCallback(u))

\* a later invocation has dispatched a second unit for a sender whose first
\* unit is in an outbound call, and the unit of another sender has finished
\* and left the set
C29_Witness ==
    \E u, v \in UnitIds :
        /\ u < v
        /\ units[u].sender = units[v].sender
        /\ units[u].pc = "running"
        /\ \E i \in RowIdx(u) : units[u].rpc[i] \notin {"new", "done"}
        /\ units[v].pc = "created"
        /\ {u, v} \subseteq active_tasks
        /\ \E w \in UnitIds : units[w].pc = "done" /\ w \notin active_tasks

(* ------------------------------------------------------------------ *)
(* Routing of a row                                                    *)
(* ------------------------------------------------------------------ *)

\* the step on which _route_message takes its branch for the answer st
RouteTaken(u, i, st) == units[u].rpc[i] = "lookup" /\ route_message(u, i, st)

\* C30: the branch of a row follows the status the lookup answered: none goes
\* to the creation of the account, and from there to onboarding or out;
\* pending and onboarding go to the onboarding conversation; active with a
\* user_id goes to the agent call behind the semaphore; active without one
\* goes to the error reply, with no permit taken and no call before the row ends
C30_RoutingByStatus ==
    [][\A u \in UnitIds : \A i \in RowIdx(u) :
          /\ RouteTaken(u, i, "none")
                => units'[u].rpc[i] = "create" /\ semValue' = semValue
          /\ \A st \in {"pending", "onboarding"} :
                RouteTaken(u, i, st)
                    => units'[u].rpc[i] = "relookup" /\ semValue' = semValue
          /\ RouteTaken(u, i, "active")
                => \/ units'[u].rpc[i] = "agent_call" /\ semValue' = semValue - 1
                   \/ units'[u].rpc[i] = "sem_wait" /\ semValue' = semValue
                                                    /\ semValue = 0
          /\ RouteTaken(u, i, "active_noid")
                => units'[u].rpc[i] = "error_reply" /\ semValue' = semValue
          /\ (units[u].rpc[i] = "error_reply" /\ units'[u].rpc[i] # "error_reply")
                => units'[u].rpc[i] = "done" /\ semValue' = semValue
          /\ (units[u].rpc[i] = "create" /\ units'[u].rpc[i] # "create")
                => units'[u].rpc[i] \in {"onboard_call", "refetch", "done"}
          /\ (units[u].rpc[i] = "relookup" /\ units'[u].rpc[i] # "relookup")
                => units'[u].rpc[i] \in {"onboard_call", "agent_call", "sem_wait"}]_vars

\* the error reply of a sender without user_id is being delivered while the
\* only permit is held by the agent call of another sender
C30_Witness ==
    \E u, v \in UnitIds :
        /\ u # v
        /\ \E i \in RowIdx(u) : units[u].rpc[i] = "error_reply"
        /\ \E j \in RowIdx(v) : units[v].rpc[j] = "agent_call"
        /\ semValue = 0

(* ------------------------------------------------------------------ *)
(* The user cache and the onboarding re-check                          *)
(* ------------------------------------------------------------------ *)

\* every snapshot is stored, whatever its status
cache_set_any(c, st) == IF st = "none" THEN c ELSE st

\* _UserCache.set: only a snapshot whose status is "active" is stored
cache_set(c, st) == IF st \in {"active", "active_noid"} THEN st ELSE c

\* _UserCache.invalidate
invalidate(c) == "absent"

\* what the request of _get_user_info can answer while the record is acc: the
\* record, or None after a status other than 200 or an exception
Answers(acc) == {acc, "none"}

\* the value _get_user_info returns for the answer st of its request
Fetched(st) == IF st = "none" THEN NoInfo ELSE [status |-> st, src |-> "http"]

\* the value _get_user_info returns from the entry c of the cache
Cached(c) == [status |-> c, src |-> "cache"]

OnboardFrame == UNCHANGED << base_vars, debounce_vars, stuck, before_stop >>

\* _process_active_user: without a user_id the error text is sent, else the
\* agent is called
process_active_user(inf, c) ==
    /\ ob_pc' = IF inf.status = "active" THEN "agent_call" ELSE "error_reply"
    /\ user_cache' = c
    /\ user_info' = NoInfo /\ fresh_info' = NoInfo /\ ob_info' = NoInfo

\* _continue_onboarding from line 342: fresh is what _get_user_info returned
continue_decide(fresh, old, c) ==
    /\ user_info' = old
    /\ fresh_info' = fresh
    /\ user_cache' = c
    /\ IF fresh # NoInfo /\ fresh.status = "active"
       THEN ob_pc' = "agent_call" /\ ob_info' = NoInfo
       ELSE /\ ob_pc' = "onboard_call"
            /\ ob_info' = IF fresh # NoInfo THEN fresh ELSE old

\* _continue_onboarding lines 340-341: the snapshot is invalidated, then
\* _get_user_info answers from the cache when it holds an entry and sends its
\* request when it does not
continue_onboarding(old, c) ==
    LET c2 == invalidate(c) IN
    IF c2 # "absent"
    THEN continue_decide(Cached(c2), old, c2)
    ELSE /\ ob_pc' = "relookup"
         /\ user_info' = old
         /\ user_cache' = c2
         /\ fresh_info' = NoInfo /\ ob_info' = NoInfo

\* _route_message lines 241-251 for the user_info inf
Routed(inf, c) ==
    CASE inf = NoInfo ->
           /\ ob_pc' = "create" /\ user_cache' = c
           /\ user_info' = NoInfo /\ fresh_info' = NoInfo /\ ob_info' = NoInfo
      [] inf # NoInfo /\ inf.status \in {"pending", "onboarding"} ->
           continue_onboarding(inf, c)
      [] inf # NoInfo /\ inf.status \in {"active", "active_noid"} ->
           process_active_user(inf, c)
      [] OTHER ->
           /\ ob_pc' = "done" /\ user_cache' = c
           /\ user_info' = NoInfo /\ fresh_info' = NoInfo /\ ob_info' = NoInfo

\* _route_message is entered for a row: _get_user_info answers from the cache
\* (lines 256-258) or sends its request
RouteBegin ==
    /\ ob_pc \in {"idle", "done"}
    /\ IF user_cache # "absent"
       THEN Routed(Cached(user_cache), user_cache)
       ELSE /\ ob_pc' = "lookup"
            /\ UNCHANGED user_cache
            /\ user_info' = NoInfo /\ fresh_info' = NoInfo /\ ob_info' = NoInfo
    /\ UNCHANGED account
    /\ OnboardFrame

\* the request of _route_message's lookup answered (lines 273-285)
RouteLookupReturn ==
    /\ ob_pc = "lookup"
    /\ \E st \in Answers(account) : Routed(Fetched(st), cache_set(user_cache, st))
    /\ UNCHANGED account
    /\ OnboardFrame

\* _onboard_new_user: the POST answered.  201: the record exists, the entry is
\* invalidated and the first onboarding call is made with no history; 409: the
\* entry is invalidated and the record fetched again; else nothing more
OnboardCreateReturn ==
    /\ ob_pc = "create"
    /\ \/ /\ account = "none"
          /\ account' = "pending"
          /\ ob_pc' = "onboard_first"
          /\ user_cache' = invalidate(user_cache)
       \/ /\ account # "none"
          /\ ob_pc' = "refetch"
          /\ user_cache' = invalidate(user_cache)
          /\ UNCHANGED account
       \/ /\ ob_pc' = "done"
          /\ UNCHANGED << account, user_cache >>
    /\ UNCHANGED << user_info, fresh_info, ob_info >>
    /\ OnboardFrame

\* _onboard_new_user lines 310-315: the re-fetch answered
OnboardRefetchReturn ==
    /\ ob_pc = "refetch"
    /\ \E st \in Answers(account) :
          LET inf == Fetched(st)
              c == cache_set(user_cache, st)
          IN  CASE inf = NoInfo ->
                     /\ ob_pc' = "done" /\ user_cache' = c
                     /\ user_info' = NoInfo /\ fresh_info' = NoInfo /\ ob_info' = NoInfo
                [] inf # NoInfo /\ inf.status \in {"active", "active_noid"} ->
                     process_active_user(inf, c)
                [] OTHER -> continue_onboarding(inf, c)
    /\ UNCHANGED account
    /\ OnboardFrame

\* _continue_onboarding: the request of the fresh lookup answered
OnboardRelookupReturn ==
    /\ ob_pc = "relookup"
    /\ \E st \in Answers(account) :
          continue_decide(Fetched(st), user_info, cache_set(user_cache, st))
    /\ UNCHANGED account
    /\ OnboardFrame

\* the onboarding call, the agent turn or the error reply is over
RouteEnd ==
    /\ ob_pc \in {"onboard_call", "onboard_first", "agent_call", "error_reply"}
    /\ ob_pc' = "done"
    /\ UNCHANGED << account, user_cache, user_info, fresh_info, ob_info >>
    /\ OnboardFrame

\* the sender's record changes on the server: onboarding goes on or completes
AccountChange ==
    /\ \E st \in Statuses \ {"none", account} : account' = st
    /\ account # "none"
    /\ UNCHANGED << user_cache, ob_pc, user_info, fresh_info, ob_info >>
    /\ OnboardFrame

\* the ttl of the entry elapses: the next get drops it (lines 113-118)
TtlElapsed ==
    /\ user_cache # "absent"
    /\ user_cache' = "absent"
    /\ UNCHANGED << account, ob_pc, user_info, fresh_info, ob_info >>
    /\ OnboardFrame

NextOnboard ==
    \/ RouteBegin
    \/ RouteLookupReturn
    \/ OnboardCreateReturn
    \/ OnboardRefetchReturn
    \/ OnboardRelookupReturn
    \/ RouteEnd
    \/ AccountChange
    \/ TtlElapsed

SpecOnboard == Init /\ [][NextOnboard]_vars

\* C31: continue-onboarding makes its onboarding call only after it has
\* invalidated the sender's snapshot and a fresh request has answered, never on
\* a snapshot that came from the cache; and when the fresh lookup shows the
\* sender active with an account identifier, no onboarding call is made and the
\* agent turn is run
C31_OnboardingRecheck ==
    /\ [][(ob_pc' = "onboard_call" /\ ob_pc # "onboard_call")
            => /\ ob_pc = "relookup"
               /\ user_cache = "absent"
               /\ ob_info'.src # "cache"
               /\ fresh_info'.src # "cache"
               /\ ~(fresh_info'.status = "active")]_vars
    /\ [][(ob_pc = "relookup" /\ ob_pc' # "relookup" /\ fresh_info'.status = "active")
            => ob_pc' = "agent_call"]_vars
    /\ [](ob_pc = "relookup" => user_cache = "absent")

\* the sender was routed as onboarding, finished onboarding meanwhile, and the
\* fresh lookup sent the row to the agent
C31_Witness ==
    /\ ob_pc = "agent_call"
    /\ user_info.status \in {"pending", "onboarding"}
    /\ fresh_info.status = "active"
    /\ fresh_info.src = "http"

\* the fresh lookup failed and the onboarding call is built from the
\* user_info of the routing, itself the answer of a request
C31_FallbackWitness ==
    /\ ob_pc = "onboard_call"
    /\ fresh_info = NoInfo
    /\ ob_info = user_info
    /\ ob_info.src = "http"

(* ------------------------------------------------------------------ *)
(* The turn on any status and any line                                 *)
(* ------------------------------------------------------------------ *)

\* the statuses a response can start with: success and a failure
StatusCodes == {200, 500}

\* the bodies of Bodies(n), and those with lines that are JSON but no object
RECURSIVE AnyBodies(_)
AnyBodies(n) ==
    IF n = 0 THEN {<<>>}
    ELSE AnyBodies(n - 1)
         \cup {b \o pre \o <<h, "}", "NL">> :
                  b \in AnyBodies(n - 1), pre \in {<<>>, <<"SP">>}, h \in EventHeads}
         \cup {b \o <<v, "NL">> : b \in AnyBodies(n - 1), v \in NonObjects}

AnyStreams ==
    AnyBodies(MaxEvents)
    \cup {SubSeq(b, 1, Len(b) - 1) : b \in AnyBodies(MaxEvents) \ {<<>>}}

\* _forward_to_agent_streaming has received the status line and the headers of
\* an NDJSON response
InitParse ==
    /\ store = <<>>
    /\ mtime = 0
    /\ last_mtime = 0
    /\ last_rowid = 0
    /\ processed_guids = {}
    /\ insert_order = <<>>
    /\ disk = EmptyDoc
    /\ sent_message_ids = {}
    /\ CoreInit
    /\ LifeInit
    /\ FileInit
    /\ DeliveryInit
    /\ DecodeIdle
    /\ ExtraIdle
    /\ chunks \in AnyStreams
    /\ stream_pos = 0
    /\ buffer = <<>>
    /\ response_text = ""
    /\ last_response_id = "none"
    /\ delivered = <<>>
    /\ turn_pc = "stream"
    /\ status_code \in StatusCodes
    /\ raised_by = "none"

NextParse ==
    \/ StreamRead
    \/ ErrorBodyRead
    \/ StatusRaise
    \/ StreamTimeout
    \/ StreamEnd
    \/ TurnDeliver
    \/ TurnCaught

SpecParse == InitParse /\ [][NextParse]_vars

\* C32: on a status other than 200 nothing of the body is parsed: no ack is
\* forwarded, no terminal text and no reply identifier come out of the turn,
\* the status error is raised only once the whole body has been read, and the
\* exception that leaves the turn is caught by the handler of the row
C32_NonSuccessStatus ==
    /\ [](status_code # 200 =>
            /\ delivered = <<>>
            /\ response_text = ""
            /\ last_response_id = "none"
            /\ sent_message_ids = {}
            /\ turn_pc \in {"stream", "raised", "caught"}
            /\ raised_by \in {"none", "status", "timeout"}
            /\ (raised_by = "status" => stream_pos = Len(chunks))
            /\ (turn_pc = "stream" /\ stream_pos = Len(chunks) => ENABLED StatusRaise)
            /\ (turn_pc = "raised" => ENABLED TurnCaught))
    /\ [][(status_code # 200 /\ turn_pc = "raised") => turn_pc' = "caught"]_vars

\* a failure status whose body held an ack and a response: the body was read to
\* its end, the status error raised and caught, and nothing was delivered
C32_Witness ==
    /\ status_code # 200
    /\ turn_pc = "caught"
    /\ raised_by = "status"
    /\ chunks = ScenarioStream
    /\ stream_pos = Len(chunks)
    /\ delivered = <<>>

\* the stream ends with a response object that has no newline after it, and
\* holds no other response
TrailingResponse ==
    /\ Len(chunks) >= 2
    /\ chunks[Len(chunks)] = "}"
    /\ chunks[Len(chunks) - 1] = "{response"
    /\ \A k \in 1..(Len(chunks) - 2) : chunks[k] # "{response"

\* C33: what is left in the buffer when the stream ends without a final newline
\* is never parsed: once the turn is over the buffer still holds that text and
\* the outcome is that of the complete lines alone; a response that is the last
\* line and has no newline gives no terminal text, no reply identifier and no
\* delivery of a reply
C33_PartialTrailingLine ==
    LET whole == Handled(LinesOf(chunks))
        out == ResponseAfter(whole, [text |-> "", id |-> "none"])
    IN  /\ turn_pc \in {"done", "deliver"} =>
              /\ stream_pos = Len(chunks)
              /\ buffer = RestOf(chunks)
              /\ response_text = out.text
              /\ last_response_id = out.id
        /\ turn_pc = "done" =>
              delivered = AckTexts(whole) \o (IF out.text = "" THEN <<>> ELSE <<out.text>>)
        /\ TrailingResponse =>
              /\ response_text = ""
              /\ last_response_id = "none"
              /\ sent_message_ids = {}
              /\ turn_pc # "deliver"
              /\ \A k \in 1..Len(delivered) : delivered[k] # "Done."

\* an ack line, then a response without its newline: the turn is over, the ack
\* was delivered, the response is still in the buffer and no reply was sent
C33_Witness ==
    /\ chunks = <<"{ack", "}", "NL", "{response", "}">>
    /\ status_code = 200
    /\ turn_pc = "done"
    /\ buffer = <<"{response", "}">>
    /\ delivered = <<"One sec.">>
    /\ response_text = ""

\* the complete lines of the whole stream that are response events
ResponseLines ==
    {k \in 1..Len(LinesOf(chunks)) : ParseLine(LinesOf(chunks)[k]).type = "response"}

\* no line of the stream is a JSON value other than an object
OnlyObjects == \A k \in 1..Len(chunks) : chunks[k] \notin NonObjects

\* C34: an error event does not end the turn: nothing but a timeout, a failure
\* status or a line that is no object raises, the lines after an error event are
\* handled like any other, and a later response gives the terminal reply; a
\* stream that ends with no response event gives no terminal text and no reply
C34_ErrorNotTerminal ==
    LET all == LinesOf(chunks)
        out == ResponseAfter(all, [text |-> "", id |-> "none"])
    IN  /\ raised_by = "event" =>
              \E k \in 1..stream_pos : chunks[k] \in NonObjects
        /\ (status_code = 200 /\ OnlyObjects /\ turn_pc \in {"done", "deliver"}) =>
              /\ stream_pos = Len(chunks)
              /\ response_text = out.text
              /\ last_response_id = out.id
        /\ (status_code = 200 /\ OnlyObjects /\ turn_pc = "done") =>
              delivered = AckTexts(all) \o (IF out.text = "" THEN <<>> ELSE <<out.text>>)
        /\ (ResponseLines = {} /\ turn_pc # "stream") =>
              /\ response_text = ""
              /\ turn_pc # "deliver"
              /\ sent_message_ids = {}
              /\ \A k \in 1..Len(delivered) : delivered[k] # "Done."

\* an error event, then a response: the turn is over and the reply of the
\* response was delivered and its identifier recorded
C34_Witness ==
    /\ chunks = <<"{error", "}", "NL", "{response", "}", "NL">>
    /\ status_code = 200
    /\ turn_pc = "done"
    /\ delivered = <<"Done.">>
    /\ last_response_id = "r1"
    /\ "r1" \in sent_message_ids

\* the lines that are events: json.loads accepts them and they are objects
EventLines(lines) ==
    SelectSeq(lines, LAMBDA l : ParseLine(l).type \notin {"bad", "value"})

\* C35: a line that cannot be parsed as an event is skipped and does not fail
\* the turn: on a success status no exception but a timeout leaves the turn,
\* and once the turn is over the forwarded acks, the terminal text and the reply
\* identifier are those of the stream without the lines that are no events
C35_BadLinesSkipped ==
    LET good == EventLines(LinesOf(chunks))
        out == ResponseAfter(good, [text |-> "", id |-> "none"])
    IN  /\ status_code = 200 => raised_by \in {"none", "timeout"}
        /\ (status_code = 200 /\ turn_pc \in {"done", "deliver"}) =>
              /\ response_text = out.text
              /\ last_response_id = out.id
        /\ (status_code = 200 /\ turn_pc = "done") =>
              delivered = AckTexts(good) \o (IF out.text = "" THEN <<>> ELSE <<out.text>>)

\* C39: the forwarded acks, the terminal text and the recorded reply identifier
\* depend on the text of the stream alone, not on its chunks: whatever the sizes
\* of the chunks read so far, the buffer is the text after the last newline
\* read, and the acks forwarded and the response recorded are those of the
\* complete lines of the text read, each handled once
C39_ChunkingIndependence ==
    LET read == SubSeq(chunks, 1, stream_pos)
        lines == Handled(LinesOf(read))
        out == ResponseAfter(lines, [text |-> "", id |-> "none"])
    IN  status_code = 200 =>
          /\ buffer = SubSeq(read, Len(read) - Len(buffer) + 1, Len(read))
          /\ raised_by # "event" =>
                /\ \A k \in 1..Len(buffer) : buffer[k] # "NL"
                /\ (Len(buffer) < Len(read) => read[Len(read) - Len(buffer)] = "NL")
          /\ response_text = out.text
          /\ last_response_id = out.id
          /\ turn_pc # "done" => delivered = AckTexts(lines)
          /\ turn_pc = "done" =>
                delivered = AckTexts(lines) \o (IF out.text = "" THEN <<>> ELSE <<out.text>>)
          /\ (raised_by = "event") = (Len(lines) < Len(LinesOf(read)))
          /\ turn_pc \in {"done", "deliver"} => stream_pos = Len(chunks)

\* the response line was split: a chunk ended inside it, its first symbol waits
\* in the buffer and nothing of it has been handled
C39_Witness ==
    /\ chunks = ScenarioStream
    /\ status_code = 200
    /\ turn_pc = "stream"
    /\ stream_pos = 4
    /\ buffer = <<"{response">>
    /\ delivered = <<"One sec.">>
    /\ response_text = ""

\* the split response line was handled once its newline had arrived
C39_SplitLineHandled ==
    /\ chunks = ScenarioStream
    /\ turn_pc = "done"
    /\ delivered = <<"One sec.", "Done.">>

(* ------------------------------------------------------------------ *)
(* The debounce timers of _ChatDBHandler and the flag of start_watcher *)
(* ------------------------------------------------------------------ *)

\* push events looked at
MaxPush == 3

DebounceFrame == UNCHANGED << base_vars, onboard_vars, stuck, before_stop >>

\* the timer is left to run
Cancel_not(ts, h) == ts

\* TimerHandle.cancel: the handle h of ts never runs
Cancel(ts, h) == IF h = 0 THEN ts ELSE [ts EXCEPT ![h].st = "cancelled"]

\* the timers that have not run and were not cancelled
Pending == {t \in 1..Len(timers) : timers[t].st \in {"waiting", "due"}}

\* the event is cleared when the callback returns
AfterCallback_clear(f) == FALSE

\* lines 112-115: nothing between the return of the callback and the next
\* wait_for touches the event
AfterCallback(f) == f

\* lines 38-42: the observer thread calls on_modified for chat.db or its WAL and
\* hands _schedule to the loop; the store has changed
on_modified ==
    /\ pushes < MaxPush
    /\ pushes' = pushes + 1
    /\ ready_q' = Append(ready_q, [op |-> "schedule", arg |-> pushes + 1])
    /\ bursts' = IF gap = "far" THEN bursts + 1 ELSE bursts
    /\ gap' = "close"
    /\ dirty' = TRUE
    /\ UNCHANGED << timers, handle, ev_flag, flag_sets, dw_pc, set_in_cb, woke_on >>
    /\ DebounceFrame

\* debounce_seconds have passed since the last push
IntervalPasses ==
    /\ gap = "close"
    /\ gap' = "far"
    /\ UNCHANGED << ready_q, timers, handle, pushes, bursts, ev_flag, flag_sets,
                    dw_pc, dirty, set_in_cb, woke_on >>
    /\ DebounceFrame

\* the delay of timer t is over and the loop puts its _fire behind what is
\* ready; a timer made for a push is never due before debounce_seconds have
\* passed since that push
TimerElapses(t) ==
    /\ timers[t].st = "waiting"
    /\ gap = "far"
    /\ timers' = [timers EXCEPT ![t].st = "due", ![t].due_at = pushes]
    /\ ready_q' = Append(ready_q, [op |-> "fire", arg |-> t])
    /\ UNCHANGED << handle, pushes, gap, bursts, ev_flag, flag_sets, dw_pc, dirty,
                    set_in_cb, woke_on >>
    /\ DebounceFrame

\* lines 44-49: _schedule, run by the loop for the oldest queued push
HandlerSchedule ==
    /\ ready_q # <<>>
    /\ Head(ready_q).op = "schedule"
    /\ timers' = Append(Cancel(timers, handle),
                        [st |-> "waiting", ev |-> Head(ready_q).arg, due_at |-> 0])
    /\ handle' = Len(timers) + 1
    /\ ready_q' = Tail(ready_q)
    /\ UNCHANGED << pushes, gap, bursts, ev_flag, flag_sets, dw_pc, dirty, set_in_cb,
                    woke_on >>
    /\ DebounceFrame

\* lines 51-53: _fire, run by the loop unless its handle was cancelled
HandlerFire ==
    /\ ready_q # <<>>
    /\ Head(ready_q).op = "fire"
    /\ ready_q' = Tail(ready_q)
    /\ IF timers[Head(ready_q).arg].st = "cancelled"
       THEN UNCHANGED << timers, handle, ev_flag, flag_sets, set_in_cb >>
       ELSE /\ timers' = [timers EXCEPT ![Head(ready_q).arg].st = "fired"]
            /\ handle' = 0
            /\ ev_flag' = TRUE
            /\ flag_sets' = flag_sets + 1
            /\ set_in_cb' = (set_in_cb \/ dw_pc = "callback")
    /\ UNCHANGED << pushes, gap, bursts, dw_pc, dirty, woke_on >>
    /\ DebounceFrame

\* lines 100-102 and 112: wait_for returns because the event is set; it is
\* cleared and the callback invoked
LoopWake ==
    /\ dw_pc = "wait"
    /\ ev_flag
    /\ ev_flag' = FALSE
    /\ dw_pc' = "callback"
    /\ woke_on' = IF set_in_cb THEN "kept" ELSE "event"
    /\ set_in_cb' = FALSE
    /\ UNCHANGED << ready_q, timers, handle, pushes, gap, bursts, flag_sets, dirty >>
    /\ DebounceFrame

\* lines 103-112: the wait timed out and the mtime is above last_mtime
LoopPoll ==
    /\ dw_pc = "wait"
    /\ ~ev_flag
    /\ dirty
    /\ dw_pc' = "callback"
    /\ woke_on' = "poll"
    /\ set_in_cb' = FALSE
    /\ UNCHANGED << ready_q, timers, handle, pushes, gap, bursts, ev_flag, flag_sets,
                    dirty >>
    /\ DebounceFrame

\* lines 112-115: the callback, which may have awaited, returns and last_mtime
\* is read again
CallbackReturns ==
    /\ dw_pc = "callback"
    /\ dw_pc' = "wait"
    /\ dirty' = FALSE
    /\ ev_flag' = AfterCallback(ev_flag)
    /\ UNCHANGED << ready_q, timers, handle, pushes, gap, bursts, flag_sets,
                    set_in_cb, woke_on >>
    /\ DebounceFrame

NextDebounce ==
    \/ on_modified
    \/ IntervalPasses
    \/ \E t \in 1..Len(timers) : TimerElapses(t)
    \/ HandlerSchedule
    \/ HandlerFire
    \/ LoopWake
    \/ LoopPoll
    \/ CallbackReturns

SpecDebounce == Init /\ [][NextDebounce]_vars

\* the schedule callbacks still in the ready queue
QueuedSchedules == SelectSeq(ready_q, LAMBDA h : h.op = "schedule")

\* C36: at most one timer is pending at any time and _pending_handle is that
\* timer; every run of _schedule cancels the pending timer and starts a new one;
\* _fire sets the flag only for a timer that elapsed when no push newer than its
\* own had happened; so pushes that are each less than the debounce interval
\* apart set the flag at most once, for the timer of the last of them, and once
\* when all is quiet
C36_Debounce ==
    /\ [](/\ Cardinality(Pending) <= 1
          /\ Pending = (IF handle = 0 THEN {} ELSE {handle})
          /\ Len(timers) + Len(QueuedSchedules) = pushes
          /\ \A t \in 1..Len(timers) :
                timers[t].st = "fired" => timers[t].due_at = timers[t].ev
          /\ flag_sets <= bursts
          /\ (bursts = 1 /\ flag_sets = 1) =>
                /\ timers[Len(timers)].st = "fired"
                /\ timers[Len(timers)].ev = pushes
                /\ Len(timers) = pushes
          /\ (bursts = 1 /\ ready_q = <<>> /\ Pending = {}) => flag_sets = 1)
    /\ [][Len(timers') > Len(timers) =>
            /\ Len(timers') = Len(timers) + 1
            /\ handle' = Len(timers')
            /\ timers'[handle'].st = "waiting"
            /\ handle # 0 => timers'[handle].st = "cancelled"]_vars
    /\ [][flag_sets' # flag_sets =>
            /\ flag_sets' = flag_sets + 1
            /\ ev_flag'
            /\ handle # 0 /\ timers[handle].st = "due" /\ timers'[handle].st = "fired"
            /\ timers[handle].due_at = timers[handle].ev
            /\ \A k \in 1..Len(ready_q) :
                  ready_q[k].op = "schedule" => ready_q[k].arg > timers[handle].due_at]_vars

\* a burst of MaxPush pushes: every timer but the last was cancelled and the
\* flag was set once, by the timer of the last push
C36_Witness ==
    /\ pushes = MaxPush
    /\ bursts = 1
    /\ Len(timers) = MaxPush
    /\ \A t \in 1..(MaxPush - 1) : timers[t].st = "cancelled"
    /\ timers[MaxPush].st = "fired"
    /\ flag_sets = 1

\* C38: a flag set by _fire while the callback is running is not lost: the flag
\* is cleared only by the step of the loop that then invokes the callback, it
\* is still set when the callback returns, and the loop, back at its wait,
\* invokes the callback again for it whether or not the store has changed since
C38_PushDuringCallbackKept ==
    /\ [][(ev_flag /\ ~ev_flag') => (dw_pc = "wait" /\ dw_pc' = "callback")]_vars
    /\ [][(dw_pc = "callback" /\ dw_pc' = "wait" /\ set_in_cb) => ev_flag']_vars
    /\ []((set_in_cb /\ dw_pc = "wait") => (ev_flag /\ ENABLED LoopWake))
    /\ [][(set_in_cb /\ dw_pc = "wait" /\ dw_pc' = "callback") =>
            (woke_on' = "kept" /\ ~ev_flag')]_vars

\* _fire ran while the callback was running; the callback returned, the store
\* has not changed since, and the loop has invoked the callback again
C38_Witness ==
    /\ dw_pc = "callback"
    /\ woke_on = "kept"
    /\ ~dirty
    /\ ~ev_flag

(* ------------------------------------------------------------------ *)
(* One unit that never comes back                                      *)
(* ------------------------------------------------------------------ *)

\* where a row waits for the outside: a lookup or another outbound call, the
\* agent call, the delivery of a text with its pacing delays
Outside == {"lookup", "create", "refetch", "relookup", "onboard_call", "agent_call",
            "deliver", "error_reply", "fallback"}

\* the answer a row of unit u waits for never comes
Stall(u) ==
    /\ stuck = 0
    /\ LoopFree
    /\ \E i \in RowIdx(u) : units[u].rpc[i] \in Outside
    /\ stuck' = u
    /\ UNCHANGED << base_vars, onboard_vars, debounce_vars, before_stop >>

\* the steps of the units other than the stuck one
FreeUnitStep ==
    \/ UnitStart
    \/ \E u \in UnitIds \ {stuck} : UnitFinish(u)
    \/ \E u \in UnitIds \ {stuck} : \E i \in RowIdx(u) : BeginRow(u, i)
    \/ \E u \in UnitIds \ {stuck} : \E i \in RowIdx(u) : LookupReturn(u, i)
    \/ \E u \in UnitIds \ {stuck} : \E i \in RowIdx(u) : CreateReturn(u, i)
    \/ \E u \in UnitIds \ {stuck} : \E i \in RowIdx(u) : RefetchReturn(u, i)
    \/ \E u \in UnitIds \ {stuck} : \E i \in RowIdx(u) : RelookupReturn(u, i)
    \/ \E u \in UnitIds \ {stuck} : \E i \in RowIdx(u) : OnboardReturn(u, i)
    \/ \E u \in UnitIds \ {stuck} : \E i \in RowIdx(u) : SemAcquire(u, i)
    \/ \E u \in UnitIds \ {stuck} : \E i \in RowIdx(u) : AgentReturn(u, i)
    \/ \E u \in UnitIds \ {stuck} : \E i \in RowIdx(u) : DeliverReturn(u, i)
    \/ \E u \in UnitIds \ {stuck} : \E i \in RowIdx(u) : FallbackReturn(u, i)
    \/ \E u \in UnitIds \ {stuck} : \E i \in RowIdx(u) : CatchRow(u, i)

\* what the loop runs: the poll, the callback and the units
LoopStep ==
    \/ WatcherPoll
    \/ ClassifyJunk
    \/ ClassifyProcess
    \/ Dispatch
    \/ FreeUnitStep

NextStuck ==
    \/ WriterAppend(FALSE, FALSE)
    \/ \E u \in UnitIds : Stall(u)
    \/ LoopStep

\* processor.py line 31 gives the semaphore 20 permits, so one unit that is
\* stuck in its call never holds them all: here one permit more than the
\* stuck unit can hold
InitStuck ==
    /\ store = <<>>
    /\ mtime = 0
    /\ last_mtime = 0
    /\ last_rowid = 0
    /\ processed_guids = {}
    /\ insert_order = <<>>
    /\ disk = EmptyDoc
    /\ sent_message_ids = {}
    /\ fs_queued = FALSE
    /\ pending_handle = FALSE
    /\ change_event = FALSE
    /\ w_pc = "wait"
    /\ callback_overlap = FALSE
    /\ fetching = FALSE
    /\ cb_pc = "idle"
    /\ messages = <<>>
    /\ to_process = <<>>
    /\ units = <<>>
    /\ startQ = <<>>
    /\ lockHolder = [s \in Senders |-> 0]
    /\ lockWaiters = [s \in Senders |-> <<>>]
    /\ semValue = MAX_CONCURRENT_AGENTS + 1
    /\ active_tasks = {}
    /\ mutations = {}
    /\ TurnInit
    /\ LifeInit
    /\ FileInit
    /\ DeliveryInit
    /\ DecodeIdle
    /\ ExtraIdle

\* the loop keeps running what is ready and every call but the stuck one is
\* answered; the writer and the stall are under no obligation
SpecStuck == InitStuck /\ [][NextStuck]_vars /\ WF_vars(LoopStep)

\* unit u is of another sender than the stuck unit
OtherSender(u) ==
    /\ stuck # 0
    /\ u \in UnitIds
    /\ units[u].sender # units[stuck].sender

\* C37: once a unit is stuck for good in an outbound call, a delivery or a
\* pacing delay, every unit of another sender still finishes all its rows, and
\* such a unit never waits for the stuck unit: the lock it may wait for is its
\* own sender's, held by a unit that is not stuck, and when it waits for a
\* permit of the semaphore a permit is free or a unit that is not stuck holds one
C37_StuckBlocksOnlySender ==
    /\ \A u \in 1..MaxRows :
          [](OtherSender(u) =>
               <>(/\ u \in UnitIds
                  /\ units[u].pc = "done"
                  /\ \A i \in RowIdx(u) : units[u].rpc[i] = "done"))
    /\ [](\A u \in UnitIds : OtherSender(u) =>
            /\ units[u].pc = "lock_wait" =>
                  /\ lockHolder[units[u].sender] \notin {0, stuck}
                  /\ lockHolder[units[stuck].sender] = stuck
            /\ (\E i \in RowIdx(u) : units[u].rpc[i] = "sem_wait") =>
                  \/ SemFree
                  \/ \E v \in UnitIds \ {stuck} : \E j \in RowIdx(v) :
                        units[v].rpc[j] = "agent_call")

\* a unit is stuck in its agent call with a permit of the semaphore, and a
\* unit of another sender that was created after it has finished its rows
C37_Witness ==
    /\ stuck # 0
    /\ \E i \in RowIdx(stuck) : units[stuck].rpc[i] = "agent_call"
    /\ \E u \in UnitIds :
          /\ u > stuck
          /\ units[u].sender # units[stuck].sender
          /\ units[u].pc = "done"

(* ------------------------------------------------------------------ *)
(* Stops and restarts from the state document                          *)
(* ------------------------------------------------------------------ *)

\* __main__.py lines 111-125: a shutdown signal between two steps of the loop;
\* _run saves the state and the process ends
CleanStop ==
    /\ proc_pc = "up"
    /\ LoopFree
    /\ disk' \in SaveChoices(last_rowid, processed_guids)
    /\ disk_kind' = "ok"
    /\ proc_pc' = "down"
    /\ Halted
    /\ w_pc' = "off"
    /\ save_pc' = "idle"
    /\ before_stop' = {RowAt(p).rowid : p \in UnitRows}
    /\ UNCHANGED << last_rowid, processed_guids, insert_order >>
    /\ UNCHANGED << last_mtime, callback_overlap, current_max >>
    /\ UNCHANGED << store, mtime, unit_vars, sent_vars, turn_vars, delivery_vars,
                    decode_vars, onboard_vars, debounce_vars, stuck, sd_pc, watcher_error,
                    tmp_file >>

\* kills, shutdowns and restarts around the detector and the callback; the
\* units stay on record and none of them gets to finish
NextRestart ==
    \/ WriterAppend(FALSE, FALSE)
    \/ Start
    \/ Stop
    \/ CleanStop
    \/ WatcherPoll
    \/ ClassifyJunk
    \/ ClassifyProcess
    \/ Dispatch

SpecRestart == InitBoot /\ [][NextRestart]_vars

\* C40: whenever the process stops and restarts from the state document, no row
\* handed to a unit before is handed to a unit again: the document's cursor is
\* at or above the position of every row that was handed to a unit or advanced
\* towards one, a restart takes a cursor at or above them all, and every row
\* fetched later lies above them
C40_AtMostOnceAcrossRestart ==
    /\ [](\A p \in UnitRows : \A q \in UnitRows :
             RowAt(p).rowid = RowAt(q).rowid => p = q)
    /\ [](UnitRows # {} =>
             /\ disk_kind = "ok"
             /\ \A p \in UnitRows : RowAt(p).rowid <= disk.last_rowid)
    /\ [](\A k \in 1..Len(to_process) : to_process[k].rowid <= disk.last_rowid)
    /\ [](\A k \in 1..Len(messages) : \A p \in UnitRows :
             messages[k].rowid > RowAt(p).rowid)
    /\ [][(proc_pc = "down" /\ proc_pc' = "up") =>
            /\ last_rowid' >= disk.last_rowid
            /\ \A r \in before_stop : last_rowid' >= r]_vars

\* a row was handed to a unit, the process stopped with that unit unfinished and
\* restarted, and a later row was handed to a unit while the first was not
\* fetched again
C40_Witness ==
    /\ proc_pc = "up"
    /\ before_stop # {}
    /\ \E p \in UnitRows : RowAt(p).rowid \notin before_stop
    /\ \A p \in UnitRows : units[p[1]].pc = "created"

====
